---- MODULE Spec2Model ----
(***************************************************************************)
(* Model of the technical interview prep backend (backend/main.py and      *)
(* backend/database.py): the attempt store, the SM-2 style review          *)
(* scheduler, due-review selection, mock-session scoring, bookmarks,       *)
(* lookups by identifier and the analytics.                                *)
(*                                                                         *)
(* ease_factor is a Python float.  A double d in [1, 2^15) is represented  *)
(* exactly by the natural number d * 2^56, written as four base-2^18 limbs *)
(* (least significant first), and float addition, subtraction and          *)
(* multiplication round to 53 significant bits, ties to even, as IEEE 754  *)
(* does.  Time is counted in ticks; a day is DayTicks ticks.               *)
(***************************************************************************)
EXTENDS Integers, Sequences, FiniteSets, TLC

VARIABLES attempts, sessions, bookmarks, plans, now, pc, resp, upd, nreviews,
          inflight, open_sessions

vars == <<attempts, sessions, bookmarks, plans, now, pc, resp, upd, nreviews,
          inflight, open_sessions>>

-----------------------------------------------------------------------------
(* Bounds of the model *)

MaxAttempts == 3
MaxDue == 2
MaxSaved == 1
MaxSessions == 1
MaxNow == 2
MaxReviews == 1
MaxStreak == 7
MaxSkew == 1
MaxLimit == 2
MaxDays == 8
MaxLogged == 2
MaxWeeks == 1
MaxTagged == 2
MaxGraded == 3
MaxBookmarks == 2
MaxPlans == 1
MaxLines == 3
MaxGrowth == 18
DayTicks == 1

Users == {"u1", "u2"}
Blank == " "
Verdicts == {"correct", "partially_correct", "incorrect", "n/a"}
\* the difficulty and the pattern tags of a ProblemMetadata; "Expert" is a
\* label outside Easy / Medium / Hard
Difficulties == {"Easy", "Medium", "Hard", "Expert"}
Tags == {"dp", "graphs"}
PatternLists == UNION {[1..n -> Tags] : n \in 0..2}
Problems == [difficulty : Difficulties, patterns : PatternLists]
PlainProblem == [difficulty |-> "Medium", patterns |-> <<>>]
\* None in an integer or timestamp column, and in the Float column total_score
NULL == 0 - 1
NoScore == [num |-> 0, den |-> 0]

-----------------------------------------------------------------------------
(* Exact arithmetic on naturals below 2^72, as four limbs base 2^18 *)

Base == 2^18
Limbs == 1..4

RECURSIVE Carry(_, _)
Carry(s, k) == IF k = 1 THEN 0 ELSE (s[k-1] + Carry(s, k-1)) \div Base

Norm(s) == [k \in Limbs |-> (s[k] + Carry(s, k)) % Base]

BigAdd(x, y) == Norm([k \in Limbs |-> x[k] + y[k]])
BigSub(x, y) == Norm([k \in Limbs |-> x[k] - y[k]])
BigMulInt(i, x) == Norm([k \in Limbs |-> i * x[k]])

RECURSIVE BigLessFrom(_, _, _)
BigLessFrom(x, y, k) ==
    IF k = 0 THEN FALSE
    ELSE IF x[k] # y[k] THEN x[k] < y[k]
    ELSE BigLessFrom(x, y, k-1)

BigLess(x, y) == BigLessFrom(x, y, 4)
BigLeq(x, y) == ~BigLess(y, x)

RECURSIVE BitLen(_)
BitLen(n) == IF n = 0 THEN 0 ELSE 1 + BitLen(n \div 2)

RECURSIVE BigBitLenFrom(_, _)
BigBitLenFrom(x, k) ==
    IF k = 0 THEN 0
    ELSE IF x[k] # 0 THEN 18 * (k-1) + BitLen(x[k])
    ELSE BigBitLenFrom(x, k-1)

BigBitLen(x) == BigBitLenFrom(x, 4)

-----------------------------------------------------------------------------
(* IEEE 754 binary64 arithmetic on the representation d * 2^56 *)

\* the spacing of doubles around x: 53 significant bits are kept
Ulp(x) == IF BigBitLen(x) > 53 THEN 2^(BigBitLen(x) - 53) ELSE 1

\* round to nearest multiple of Ulp(x), ties to even
RoundMode(r, u, odd) == (2 * r > u) \/ (2 * r = u /\ odd)

FRound(x) ==
    LET u == Ulp(x)
        r == x[1] % u
        odd == IF u = Base THEN x[2] % 2 = 1 ELSE (x[1] \div u) % 2 = 1
        up == RoundMode(r, u, odd)
    IN  Norm([x EXCEPT ![1] = x[1] - r + (IF up THEN u ELSE 0)])

FAdd(x, y) == FRound(BigAdd(x, y))
FSub(x, y) == FRound(BigSub(x, y))
\* int * float: the int converts exactly, the product is rounded once
FMulInt(i, x) == FRound(BigMulInt(i, x))

\* int(d): truncation toward zero of a non-negative double
FloatToInt(x) == x[4] \div 4

FMin(x, y) == IF BigLess(y, x) THEN y ELSE x
FMax(x, y) == IF BigLess(x, y) THEN y ELSE x

\* float literals of database.py
F_2_5 == <<0, 0, 0, 10>>
F_1_3 == <<52432, 209715, 52428, 5>>
F_0_1 == <<104858, 157286, 104857, 0>>
F_0_2 == <<209716, 52428, 209715, 0>>

-----------------------------------------------------------------------------
(* Review scheduler *)

timedelta_days(n) == n * DayTicks

\* a variant of the assignments that also rewrites the verdict
assign_review_verdict(attempt, new_interval, new_ease, next_review_at) ==
    [attempt EXCEPT !.review_interval_days = new_interval,
                    !.ease_factor = new_ease,
                    !.next_review_at = next_review_at,
                    !.verdict = "correct"]

\* the three assignments of calculate_next_review
assign_review(attempt, new_interval, new_ease, next_review_at) ==
    [attempt EXCEPT !.review_interval_days = new_interval,
                    !.ease_factor = new_ease,
                    !.next_review_at = next_review_at]

\* the review state a correct and an incorrect answer lead to; the product
\* of an interval with 2.5 is exact in a double, and so is the integer
\* quotient of five times the interval by two
correct_interval(attempt) ==
    IF attempt.ease_factor = F_2_5
    THEN (5 * attempt.review_interval_days) \div 2
    ELSE FloatToInt(FMulInt(attempt.review_interval_days, attempt.ease_factor))
correct_ease(attempt) == FMin(F_2_5, FAdd(attempt.ease_factor, F_0_1))
incorrect_ease(attempt) == FMax(F_1_3, FSub(attempt.ease_factor, F_0_2))

\* variants of calculate_next_review with one slip each
\* ... the ease factor is not clamped
calculate_next_review_unclamped(attempt, was_correct, t) ==
    LET new_interval == IF was_correct THEN correct_interval(attempt) ELSE 1
        new_ease == IF was_correct
                    THEN FAdd(attempt.ease_factor, F_0_1)
                    ELSE FSub(attempt.ease_factor, F_0_2)
    IN  assign_review(attempt, new_interval, new_ease, t + timedelta_days(new_interval))

\* ... an incorrect answer resets the interval to 0
calculate_next_review_reset0(attempt, was_correct, t) ==
    LET new_interval == IF was_correct THEN correct_interval(attempt) ELSE 0
        new_ease == IF was_correct THEN correct_ease(attempt) ELSE incorrect_ease(attempt)
    IN  assign_review(attempt, new_interval, new_ease, t + timedelta_days(new_interval))

\* ... the interval is multiplied by the ease factor after its update
calculate_next_review_new_ease(attempt, was_correct, t) ==
    LET new_ease == IF was_correct THEN correct_ease(attempt) ELSE incorrect_ease(attempt)
        new_interval == IF was_correct
                        THEN FloatToInt(FMulInt(attempt.review_interval_days, new_ease))
                        ELSE 1
    IN  assign_review(attempt, new_interval, new_ease, t + timedelta_days(new_interval))

\* ... an incorrect answer halves the interval
calculate_next_review_halve(attempt, was_correct, t) ==
    LET half == attempt.review_interval_days \div 2
        new_interval == IF was_correct THEN correct_interval(attempt)
                        ELSE IF half < 1 THEN 1 ELSE half
        new_ease == IF was_correct THEN correct_ease(attempt) ELSE incorrect_ease(attempt)
    IN  assign_review(attempt, new_interval, new_ease, t + timedelta_days(new_interval))

\* ... a correct answer lowers the ease factor
calculate_next_review_lower(attempt, was_correct, t) ==
    LET new_interval == IF was_correct THEN correct_interval(attempt) ELSE 1
        new_ease == IF was_correct
                    THEN FMax(F_1_3, FSub(attempt.ease_factor, F_0_1))
                    ELSE incorrect_ease(attempt)
    IN  assign_review(attempt, new_interval, new_ease, t + timedelta_days(new_interval))

\* ... next_review_at is computed from the interval before its update
calculate_next_review_old_interval(attempt, was_correct, t) ==
    LET new_interval == IF was_correct THEN correct_interval(attempt) ELSE 1
        new_ease == IF was_correct THEN correct_ease(attempt) ELSE incorrect_ease(attempt)
    IN  assign_review(attempt, new_interval, new_ease,
                      t + timedelta_days(attempt.review_interval_days))

\* calculate_next_review(attempt, was_correct), with t the value of
\* datetime.now(timezone.utc) read at the assignment of next_review_at
calculate_next_review(attempt, was_correct, t) ==
    LET new_interval == IF was_correct THEN correct_interval(attempt) ELSE 1
        new_ease == IF was_correct THEN correct_ease(attempt) ELSE incorrect_ease(attempt)
    IN  assign_review(attempt, new_interval, new_ease, t + timedelta_days(new_interval))

-----------------------------------------------------------------------------
(* Initial state: empty tables, no request in flight *)

Idle == [op |-> "idle"]
NoResp == [op |-> "none"]
NoUpd == [id |-> 0]

\* the requests that run side by side with each other
Procs == {1, 2}

Init ==
    /\ attempts = <<>>
    /\ sessions = <<>>
    /\ bookmarks = {}
    /\ plans = <<>>
    /\ now = 0
    /\ pc = Idle
    /\ resp = NoResp
    /\ upd = NoUpd
    /\ nreviews = 0
    /\ inflight = [p \in Procs |-> Idle]
    /\ open_sessions = 0

-----------------------------------------------------------------------------
(* Database sessions: db = get_session(), try: ... finally: db.close() *)

\* get_session(): one more session is open
get_session(n) == n + 1

\* the ways a handler leaves its try block
Exits == {"return", "not_found", "provider_failure", "commit_failure", "overflow"}

\* a variant of finally_close with a slip: db.close() is the last statement
\* of the try block, so that only a normal return reaches it
finally_close_on_return(n, exit) == IF exit = "return" THEN n - 1 ELSE n

\* the finally clause: db.close() runs however the try block was left
finally_close(n, exit) == n - 1

\* a handler that runs from get_session() to its finally clause in one step,
\* leaving its try block by exit, and does not touch the study plans
Session(exit) ==
    /\ open_sessions' = finally_close(get_session(open_sessions), exit)
    /\ UNCHANGED <<plans, inflight>>

\* a step that opens and closes no session
NoSession == UNCHANGED <<plans, inflight, open_sessions>>

\* the wall clock advances, explored up to the instant max_now
Clock(max_now) ==
    /\ now < max_now
    /\ now' = now + 1
    /\ UNCHANGED <<attempts, sessions, bookmarks, pc, resp, upd, nreviews>>
    /\ NoSession

Tick == Clock(MaxNow)

-----------------------------------------------------------------------------
(* Creating attempts: POST /attempts/save and POST /evaluate *)

\* json.dumps of a list of strings, and json.loads of such a text
json_dumps(list) == [array |-> list]
json_loads(text) == text.array

\* ProblemAttempt(...) followed by db.add, db.commit, db.refresh: t0 is the
\* datetime.now() passed as next_review_at, t1 >= t0 the one the created_at
\* column default reads at the INSERT; the other review columns take their
\* defaults
ProblemAttempt(user_id, problem, verdict, mock_session_id, t0, t1) ==
    [user_id |-> user_id,
     created_at |-> t1,
     difficulty |-> problem.difficulty,
     patterns |-> json_dumps(problem.patterns),
     verdict |-> verdict,
     next_review_at |-> t0,
     review_interval_days |-> 1,
     ease_factor |-> F_2_5,
     mock_session_id |-> mock_session_id]

\* the record of one scheduler call: the review state it read, its outcome
\* argument and the instant it read
SchedulerCall(id, was_correct) ==
    [id |-> id,
     interval |-> attempts[id].review_interval_days,
     ease |-> attempts[id].ease_factor,
     was_correct |-> was_correct,
     t |-> now]

\* the bodies of POST /attempts/save
SaveAttemptRequests ==
    [userId : Users \cup {Blank}, problem : Problems, verdict : Verdicts,
     mockSessionId : {NULL} \cup (1..MaxSessions)]

\* save_attempt up to its first commit, for the given requests; the clock
\* advances by one of skews between the constructor and the INSERT
save_attempt_from(requests, skews) ==
    \E req \in requests, skew \in skews :
        /\ pc = Idle
        /\ Len(attempts) < MaxAttempts
        /\ skew > 0 => now + skew <= MaxNow
        /\ attempts' = Append(attempts,
                          ProblemAttempt(req.userId, req.problem, req.verdict,
                                         req.mockSessionId, now, now + skew))
        /\ now' = now + skew
        /\ pc' = [op |-> "save_attempt", id |-> Len(attempts) + 1,
                  was_correct |-> (req.verdict = "correct")]
        /\ resp' = NoResp
        /\ UNCHANGED <<sessions, bookmarks, upd, nreviews>>
        /\ open_sessions' = get_session(open_sessions)
        /\ UNCHANGED <<plans, inflight>>

save_attempt_insert == save_attempt_from(SaveAttemptRequests, 0..MaxSkew)

\* save_attempt from calculate_next_review to its return
save_attempt_schedule ==
    /\ pc.op = "save_attempt"
    /\ attempts' = [attempts EXCEPT ![pc.id] = calculate_next_review(@, pc.was_correct, now)]
    /\ upd' = SchedulerCall(pc.id, pc.was_correct)
    /\ resp' = [op |-> "save_attempt", status |-> 200, attemptId |-> pc.id]
    /\ pc' = Idle
    /\ UNCHANGED <<sessions, bookmarks, now, nreviews>>
    /\ open_sessions' = finally_close(open_sessions, "return")
    /\ UNCHANGED <<plans, inflight>>

\* a call of a handler to the LLM provider or to the memory service; caught:
\* the call is made inside a try block whose except clause swallows the error
Call(name, caught) == [name |-> name, caught |-> caught]

\* the calls of each handler, in the order it makes them
ProviderCalls(op) ==
    CASE op = "init_session" -> <<Call("get_latest_candidate_profile", TRUE)>>
      [] op = "save_profile" ->
            <<Call("log_candidate_profile", FALSE), Call("adapter.commit", TRUE)>>
      [] op = "generate_problem" ->
            <<Call("summarize_performance", TRUE), Call("generate_personalized_problem", FALSE)>>
      [] op = "generate_hint" -> <<Call("generate_hint", FALSE)>>
      [] op = "evaluate" ->
            <<Call("evaluate_solution", FALSE), Call("log_problem_attempt", FALSE),
              Call("adapter.commit", TRUE)>>
      [] op = "summarize_progress" -> <<Call("summarize_performance", FALSE)>>
      [] op = "generate_company_problem" -> <<Call("generate_personalized_problem", FALSE)>>
      [] op = "generate_study_plan" -> <<Call("chat.completions.create", FALSE)>>

\* the sets of positions of a handler's calls that may raise
Failures(op) == SUBSET DOMAIN ProviderCalls(op)

\* a variant of run_calls with a slip: a call that raised is made once more
\* before the request fails
RECURSIVE run_calls_retry(_, _, _)
run_calls_retry(calls, failing, k) ==
    IF k > Len(calls) THEN [calls |-> <<>>, failed |-> {}, status |-> 200]
    ELSE IF k \in failing /\ ~calls[k].caught
    THEN [calls |-> <<calls[k].name, calls[k].name>>, failed |-> {calls[k].name},
          status |-> 500]
    ELSE LET rest == run_calls_retry(calls, failing, k + 1)
         IN  [calls |-> <<calls[k].name>> \o rest.calls,
              failed |-> (IF k \in failing THEN {calls[k].name} ELSE {}) \cup rest.failed,
              status |-> rest.status]

\* the calls from the k-th on, made one after the other when those at the
\* positions of failing raise: an error that is not caught ends the request
\* with status 500; the result lists the calls made and those that raised
RECURSIVE run_calls(_, _, _)
run_calls(calls, failing, k) ==
    IF k > Len(calls) THEN [calls |-> <<>>, failed |-> {}, status |-> 200]
    ELSE IF k \in failing /\ ~calls[k].caught
    THEN [calls |-> <<calls[k].name>>, failed |-> {calls[k].name}, status |-> 500]
    ELSE LET rest == run_calls(calls, failing, k + 1)
         IN  [calls |-> <<calls[k].name>> \o rest.calls,
              failed |-> (IF k \in failing THEN {calls[k].name} ELSE {}) \cup rest.failed,
              status |-> rest.status]

\* the ways the provider calls of evaluate_solution_endpoint can go
EvaluateOutcomes ==
    {run_calls(ProviderCalls("evaluate"), failing, 1) : failing \in Failures("evaluate")}

\* the keywords the verdict parser looks for; a text is the set of those it
\* contains ("incorrect" contains "correct")
Keywords == {"incorrect", "wrong", "correct", "partially"}
EvalTexts == {S \in SUBSET Keywords : "incorrect" \in S => "correct" \in S}

parse_verdict(eval_lower) ==
    IF "incorrect" \in eval_lower \/ "wrong" \in eval_lower THEN "incorrect"
    ELSE IF "correct" \in eval_lower /\ "partially" \notin eval_lower THEN "correct"
    ELSE "partially_correct"

\* _get_memori_manager: the status it raises, or 200
get_memori_manager(user_id, has_key) ==
    IF user_id = Blank THEN 400
    ELSE IF ~has_key THEN 500
    ELSE 200

\* evaluate_solution_endpoint when _get_memori_manager raises
evaluate_rejected ==
    \E u \in Users \cup {Blank}, has_key \in BOOLEAN :
        /\ pc = Idle
        /\ get_memori_manager(u, has_key) # 200
        /\ resp' = [op |-> "evaluate", status |-> get_memori_manager(u, has_key),
                    userId |-> u, has_key |-> has_key]
        /\ UNCHANGED <<attempts, sessions, bookmarks, now, pc, upd, nreviews>>
        /\ NoSession

\* evaluate_solution_endpoint when evaluate_solution or log_problem_attempt
\* raises
evaluate_provider_failure ==
    /\ pc = Idle
    /\ \E r \in EvaluateOutcomes, u \in Users :
          /\ r.status = 500
          /\ get_memori_manager(u, TRUE) = 200
          /\ resp' = [op |-> "evaluate", status |-> 500,
                      calls |-> r.calls, failed |-> r.failed]
    /\ UNCHANGED <<attempts, sessions, bookmarks, now, pc, upd, nreviews>>
    /\ NoSession

\* evaluate_solution_endpoint up to its first commit, for requests of the
\* given users about the given problems
evaluate_from(users, problems) ==
    /\ pc = Idle
    /\ Len(attempts) < MaxAttempts
    /\ \E r \in EvaluateOutcomes, u \in users, problem \in problems,
          text \in EvalTexts, skew \in 0..MaxSkew :
          /\ r.status = 200
          /\ get_memori_manager(u, TRUE) = 200
          /\ skew > 0 => now + skew <= MaxNow
          /\ attempts' = Append(attempts,
                            ProblemAttempt(u, problem, parse_verdict(text), NULL,
                                           now, now + skew))
          /\ now' = now + skew
          /\ pc' = [op |-> "evaluate", id |-> Len(attempts) + 1,
                    was_correct |-> (parse_verdict(text) = "correct"),
                    calls |-> r.calls, failed |-> r.failed]
    /\ resp' = NoResp
    /\ UNCHANGED <<sessions, bookmarks, upd, nreviews>>
    /\ open_sessions' = get_session(open_sessions)
    /\ UNCHANGED <<plans, inflight>>

evaluate_insert == evaluate_from(Users, Problems)

\* evaluate_solution_endpoint from calculate_next_review to its return
evaluate_schedule ==
    /\ pc.op = "evaluate"
    /\ attempts' = [attempts EXCEPT ![pc.id] = calculate_next_review(@, pc.was_correct, now)]
    /\ upd' = SchedulerCall(pc.id, pc.was_correct)
    /\ resp' = [op |-> "evaluate", status |-> 200, attemptId |-> pc.id,
                verdict |-> attempts[pc.id].verdict,
                calls |-> pc.calls, failed |-> pc.failed]
    /\ pc' = Idle
    /\ UNCHANGED <<sessions, bookmarks, now, nreviews>>
    /\ open_sessions' = finally_close(open_sessions, "return")
    /\ UNCHANGED <<plans, inflight>>

-----------------------------------------------------------------------------
(* Spaced repetition: POST /review/complete/{id} and GET /review/due/{user} *)

\* datetime.isoformat() of an aware UTC datetime
isoformat(t) == [instant |-> t, utcoffset |-> "+00:00"]

\* the days from the instant 0 of the clock to datetime.max, the last day of
\* the year 9999, and the last instant a datetime can hold
DaysLeft == 2900000
MaxDate == timedelta_days(DaysLeft)

\* datetime.now(timezone.utc) + timedelta(days=new_interval) raises
\* OverflowError when the date is past datetime.max
date_overflow(attempt, was_correct, t) ==
    t + timedelta_days(IF was_correct THEN correct_interval(attempt) ELSE 1) > MaxDate

\* how complete_review leaves its try block
review_exit(attempt_id, was_correct) ==
    IF attempt_id \notin DOMAIN attempts THEN "not_found"
    ELSE IF date_overflow(attempts[attempt_id], was_correct, now) THEN "overflow"
    ELSE "return"

\* complete_review, explored while fewer than max_reviews reviews were made,
\* for the ids in use and the first id not in use; when the addition of
\* calculate_next_review raises, nothing is committed
complete_review(max_reviews) ==
    \E attempt_id \in 1..(Len(attempts) + 1), was_correct \in BOOLEAN :
        /\ pc = Idle
        /\ UNCHANGED <<sessions, bookmarks, now, pc>>
        /\ LET exit == review_exit(attempt_id, was_correct)
           IN  /\ Session(exit)
               /\ IF exit = "not_found"
                  THEN /\ resp' = [op |-> "complete_review", status |-> 404,
                                   id |-> attempt_id]
                       /\ UNCHANGED <<attempts, upd, nreviews>>
                  ELSE IF exit = "overflow"
                  THEN /\ resp' = [op |-> "complete_review", status |-> 500,
                                   id |-> attempt_id, was_correct |-> was_correct,
                                   exit |-> "overflow"]
                       /\ UNCHANGED <<attempts, upd, nreviews>>
                  ELSE /\ nreviews < max_reviews
                       /\ LET attempt == calculate_next_review(attempts[attempt_id],
                                                               was_correct, now)
                          IN  /\ attempts' = [attempts EXCEPT ![attempt_id] = attempt]
                              /\ resp' = [op |-> "complete_review", status |-> 200,
                                          attemptId |-> attempt_id,
                                          nextReviewAt |-> isoformat(attempt.next_review_at),
                                          intervalDays |-> attempt.review_interval_days]
                       /\ upd' = SchedulerCall(attempt_id, was_correct)
                       /\ nreviews' = nreviews + 1

\* the rows of the filter of get_due_problems at instant t; a NULL
\* next_review_at compares as unknown and is filtered out
DueIds(user_id, t) ==
    {i \in DOMAIN attempts :
        /\ attempts[i].user_id = user_id
        /\ attempts[i].next_review_at # NULL
        /\ attempts[i].next_review_at <= t}

\* a variant of OrderBy with a slip: the order is descending
OrderByDesc(ids) ==
    {s \in [1..Cardinality(ids) -> ids] :
        /\ \A i, j \in DOMAIN s : i # j => s[i] # s[j]
        /\ \A i, j \in DOMAIN s :
              i < j => attempts[s[i]].next_review_at >= attempts[s[j]].next_review_at}

\* ORDER BY next_review_at: every arrangement of the rows in ascending
\* order (the order of rows with equal keys is not fixed)
OrderBy(ids) ==
    {s \in [1..Cardinality(ids) -> ids] :
        /\ \A i, j \in DOMAIN s : i # j => s[i] # s[j]
        /\ \A i, j \in DOMAIN s :
              i < j => attempts[s[i]].next_review_at <= attempts[s[j]].next_review_at}

\* LIMIT n of SQLite: a negative n means no upper bound
SqlLimit(s, n) ==
    IF n < 0 THEN s
    ELSE IF n < Len(s) THEN SubSeq(s, 1, n)
    ELSE s

get_due_problems(user_id, limit, t) ==
    {SqlLimit(s, limit) : s \in OrderBy(DueIds(user_id, t))}

get_due_for_review ==
    \E user_id \in Users, limit \in (-1)..MaxLimit :
        /\ pc = Idle
        /\ \E due \in get_due_problems(user_id, limit, now) :
              resp' = [op |-> "get_due_for_review", status |-> 200,
                       user_id |-> user_id, limit |-> limit, now |-> now,
                       dueCount |-> Len(due), problems |-> due]
        /\ UNCHANGED <<attempts, sessions, bookmarks, now, pc, upd, nreviews>>
        /\ Session("return")

-----------------------------------------------------------------------------
(* Mock interviews: POST /mock/start and POST /mock/complete/{id} *)

RECURSIVE GCD(_, _)
GCD(a, b) == IF b = 0 THEN a ELSE GCD(b, a % b)

\* a variant of FloatDiv with a slip: floor division
FloorDiv(a, b) == [num |-> a \div b, den |-> 1]

\* the float a / b (b > 0), named by the fraction in lowest terms it is the
\* nearest double of; the int a is the fraction a / 1
FloatDiv(a, b) ==
    LET g == GCD(a, b) IN [num |-> a \div g, den |-> b \div g]
IntValue(a) == [num |-> a, den |-> 1]

MockInterviewSession(user_id) ==
    [user_id |-> user_id,
     created_at |-> now,
     completed_at |-> NULL,
     problems_completed |-> 0,
     total_score |-> NoScore]

start_mock_session ==
    \E u \in Users :
        /\ pc = Idle
        /\ Len(sessions) < MaxSessions
        /\ sessions' = Append(sessions, MockInterviewSession(u))
        /\ resp' = [op |-> "start_mock_session", status |-> 200,
                    sessionId |-> Len(sessions) + 1]
        /\ UNCHANGED <<attempts, bookmarks, now, pc, upd, nreviews>>
        /\ Session("return")

\* the attempts linked to a session
SessionProblems(session_id) ==
    {i \in DOMAIN attempts : attempts[i].mock_session_id = session_id}

verdict_points(verdict) ==
    IF verdict = "correct" THEN 100
    ELSE IF verdict = "partially_correct" THEN 50
    ELSE 0

RECURSIVE SumPoints(_)
SumPoints(ids) ==
    IF ids = {} THEN 0
    ELSE LET i == CHOOSE i \in ids : TRUE
         IN  verdict_points(attempts[i].verdict) + SumPoints(ids \ {i})

\* the value complete_mock_session stores in total_score
mock_total_score(problems) ==
    IF problems # {}
    THEN FloatDiv(SumPoints(problems), Cardinality(problems))
    ELSE IntValue(SumPoints(problems))

\* complete_mock_session, for the ids in use and the first id not in use
complete_mock_session ==
    \E session_id \in 1..(Len(sessions) + 1) :
        /\ pc = Idle
        /\ UNCHANGED <<attempts, bookmarks, now, pc, upd, nreviews>>
        /\ Session(IF session_id \notin DOMAIN sessions THEN "not_found" ELSE "return")
        /\ IF session_id \notin DOMAIN sessions
           THEN /\ resp' = [op |-> "complete_mock_session", status |-> 404,
                            id |-> session_id]
                /\ UNCHANGED sessions
           ELSE LET problems == SessionProblems(session_id)
                    total_score == mock_total_score(problems)
                IN  /\ sessions' = [sessions EXCEPT ![session_id] =
                                       [@ EXCEPT !.completed_at = now,
                                                 !.problems_completed = Cardinality(problems),
                                                 !.total_score = total_score]]
                    /\ resp' = [op |-> "complete_mock_session", status |-> 200,
                                sessionId |-> session_id,
                                score |-> total_score,
                                problemsCompleted |-> Cardinality(problems)]

-----------------------------------------------------------------------------
(* Reading one record: GET /attempts/{id} and GET /mock/session/{id} *)

\* get_attempt, for the ids in use and the first id not in use
get_attempt ==
    \E attempt_id \in 1..(Len(attempts) + 1) :
        /\ pc = Idle
        /\ IF attempt_id \notin DOMAIN attempts
           THEN resp' = [op |-> "get_attempt", status |-> 404, id |-> attempt_id]
           ELSE resp' = [op |-> "get_attempt", status |-> 200, id |-> attempt_id,
                         userId |-> attempts[attempt_id].user_id,
                         verdict |-> attempts[attempt_id].verdict]
        /\ UNCHANGED <<attempts, sessions, bookmarks, now, pc, upd, nreviews>>
        /\ Session(IF attempt_id \notin DOMAIN attempts THEN "not_found" ELSE "return")

\* get_mock_session, for the ids in use and the first id not in use
get_mock_session ==
    \E session_id \in 1..(Len(sessions) + 1) :
        /\ pc = Idle
        /\ IF session_id \notin DOMAIN sessions
           THEN resp' = [op |-> "get_mock_session", status |-> 404, id |-> session_id]
           ELSE resp' = [op |-> "get_mock_session", status |-> 200, id |-> session_id,
                         userId |-> sessions[session_id].user_id,
                         problems |-> SessionProblems(session_id)]
        /\ UNCHANGED <<attempts, sessions, bookmarks, now, pc, upd, nreviews>>
        /\ Session(IF session_id \notin DOMAIN sessions THEN "not_found" ELSE "return")

-----------------------------------------------------------------------------
(* Bookmarks: POST /bookmarks/add and DELETE /bookmarks/{id} *)

Collections == {"Saved", "Later"}
\* notes is None or a text
NoNotes == "None"
Notes == {NoNotes, "revisit"}

\* the bodies of POST /bookmarks/add; attemptId is not checked against the
\* attempts
BookmarkRequests ==
    [userId : Users, attemptId : 1..2, collectionName : Collections, notes : Notes]

\* the id SQLite gives an inserted row of a table with an INTEGER PRIMARY KEY:
\* one more than the largest id in use
NextRowId(rows) ==
    IF rows = {} THEN 1
    ELSE 1 + (CHOOSE n \in {r.id : r \in rows} : \A r \in rows : r.id <= n)

Bookmark(id, req) ==
    [id |-> id,
     user_id |-> req.userId,
     attempt_id |-> req.attemptId,
     collection_name |-> req.collectionName,
     created_at |-> now,
     notes |-> req.notes]

\* a variant of ExistingBookmarks with a slip: the notes are compared too
ExistingBookmarksWithNotes(req) ==
    {b \in bookmarks : /\ b.user_id = req.userId
                       /\ b.attempt_id = req.attemptId
                       /\ b.collection_name = req.collectionName
                       /\ b.notes = req.notes}

\* the rows of the query of add_bookmark
ExistingBookmarks(req) ==
    {b \in bookmarks : /\ b.user_id = req.userId
                       /\ b.attempt_id = req.attemptId
                       /\ b.collection_name = req.collectionName}

\* add_bookmark, for the given requests
add_bookmark_from(requests) ==
    \E req \in requests :
        /\ pc = Idle
        /\ IF ExistingBookmarks(req) # {}
           THEN /\ \E existing \in ExistingBookmarks(req) :
                      resp' = [op |-> "add_bookmark", status |-> 200, req |-> req,
                               bookmarkId |-> existing.id,
                               message |-> "Already bookmarked"]
                /\ UNCHANGED bookmarks
           ELSE /\ Cardinality(bookmarks) < MaxBookmarks
                /\ bookmarks' = bookmarks \cup {Bookmark(NextRowId(bookmarks), req)}
                /\ resp' = [op |-> "add_bookmark", status |-> 200, req |-> req,
                            bookmarkId |-> NextRowId(bookmarks),
                            message |-> NoNotes]
        /\ UNCHANGED <<attempts, sessions, now, pc, upd, nreviews>>
        /\ Session("return")

add_bookmark == add_bookmark_from(BookmarkRequests)

\* delete_bookmark, for the ids in use and one id past them
delete_bookmark ==
    \E bookmark_id \in 1..(MaxBookmarks + 1) :
        /\ pc = Idle
        /\ bookmarks' = {b \in bookmarks : b.id # bookmark_id}
        /\ resp' = [op |-> "delete_bookmark", status |-> 200, id |-> bookmark_id]
        /\ UNCHANGED <<attempts, sessions, now, pc, upd, nreviews>>
        /\ Session("return")

-----------------------------------------------------------------------------
(* Analytics: GET /analytics/{user_id} *)

\* the rows of db.query(ProblemAttempt).filter(user_id == user_id)
UserAttempts(user_id) == {i \in DOMAIN attempts : attempts[i].user_id = user_id}

\* the ids of a set of rows in the order the loops visit them
RECURSIVE Rows(_)
Rows(ids) ==
    IF ids = {} THEN <<>>
    ELSE LET i == CHOOSE i \in ids : \A j \in ids : i <= j
         IN  <<i>> \o Rows(ids \ {i})

\* one pass of the inner loop of get_pattern_stats
count_pattern(pattern_stats, pattern, verdict) ==
    LET stats == IF pattern \in DOMAIN pattern_stats
                 THEN pattern_stats
                 ELSE pattern_stats @@
                      (pattern :> [total |-> 0, correct |-> 0, incorrect |-> 0, partial |-> 0])
    IN  [stats EXCEPT ![pattern] =
            [total |-> @.total + 1,
             correct |-> @.correct + (IF verdict = "correct" THEN 1 ELSE 0),
             incorrect |-> @.incorrect + (IF verdict = "incorrect" THEN 1 ELSE 0),
             partial |-> @.partial + (IF verdict \notin {"correct", "incorrect"} THEN 1 ELSE 0)]]

RECURSIVE count_patterns(_, _, _)
count_patterns(pattern_stats, patterns, verdict) ==
    IF patterns = <<>> THEN pattern_stats
    ELSE count_patterns(count_pattern(pattern_stats, Head(patterns), verdict),
                        Tail(patterns), verdict)

RECURSIVE pattern_stats_loop(_, _)
pattern_stats_loop(pattern_stats, rows) ==
    IF rows = <<>> THEN pattern_stats
    ELSE pattern_stats_loop(
             count_patterns(pattern_stats,
                            json_loads(attempts[Head(rows)].patterns),
                            attempts[Head(rows)].verdict),
             Tail(rows))

get_pattern_stats(user_id) == pattern_stats_loop(<<>>, Rows(UserAttempts(user_id)))

DifficultyBuckets == {"Easy", "Medium", "Hard"}

\* a variant of count_difficulty with a slip: an unknown label is counted
\* as Medium
count_difficulty_default(stats, diff, verdict) ==
    LET d == IF diff \in DOMAIN stats THEN diff ELSE "Medium"
    IN  [stats EXCEPT ![d] =
            [total |-> @.total + 1,
             correct |-> @.correct + (IF verdict = "correct" THEN 1 ELSE 0)]]

\* one pass of the loop of get_difficulty_stats
count_difficulty(stats, diff, verdict) ==
    IF diff \in DOMAIN stats
    THEN [stats EXCEPT ![diff] =
             [total |-> @.total + 1,
              correct |-> @.correct + (IF verdict = "correct" THEN 1 ELSE 0)]]
    ELSE stats

RECURSIVE difficulty_stats_loop(_, _)
difficulty_stats_loop(stats, rows) ==
    IF rows = <<>> THEN stats
    ELSE difficulty_stats_loop(
             count_difficulty(stats, attempts[Head(rows)].difficulty,
                              attempts[Head(rows)].verdict),
             Tail(rows))

get_difficulty_stats(user_id) ==
    difficulty_stats_loop([d \in DifficultyBuckets |-> [total |-> 0, correct |-> 0]],
                          Rows(UserAttempts(user_id)))

\* calendar: instant 0 is the midnight that starts a Monday
timedelta_weeks(n) == n * 7 * DayTicks
\* datetime.weekday(): Monday is 0
weekday(t) == (t \div DayTicks) % 7
\* strftime("%Y-%m-%d"): the day of the instant, its time of day dropped
strftime_date(t) == t \div DayTicks

\* the key get_weekly_activity files an attempt under
week_key(created_at) ==
    strftime_date(created_at - timedelta_days(weekday(created_at)))

\* weekly_data.get(week_key, 0)
weekly_data_get(rows, key) ==
    Cardinality({i \in rows : week_key(attempts[i].created_at) = key})

\* a variant of the loop with a slip: the last step is left out
RECURSIVE weekly_fill_exclusive(_, _, _)
weekly_fill_exclusive(rows, current, end_date) ==
    IF current < end_date
    THEN <<[week |-> strftime_date(current),
            count |-> weekly_data_get(rows, strftime_date(current))]>>
         \o weekly_fill_exclusive(rows, current + timedelta_weeks(1), end_date)
    ELSE <<>>

\* the loop "while current <= end_date"
RECURSIVE weekly_fill(_, _, _)
weekly_fill(rows, current, end_date) ==
    IF current <= end_date
    THEN <<[week |-> strftime_date(current),
            count |-> weekly_data_get(rows, strftime_date(current))]>>
         \o weekly_fill(rows, current + timedelta_weeks(1), end_date)
    ELSE <<>>

get_weekly_activity(user_id, weeks, end_date) ==
    LET start_date == end_date - timedelta_weeks(weeks)
        rows == {i \in UserAttempts(user_id) : attempts[i].created_at >= start_date}
    IN  weekly_fill(rows, start_date, end_date)

\* the remainder of the limbs 4 .. k of x divided by the small int n
RECURSIVE DivRem(_, _, _)
DivRem(x, n, k) == IF k > 4 THEN 0 ELSE (DivRem(x, n, k + 1) * Base + x[k]) % n

\* floor(x / n) on limbs
BigDivInt(x, n) == [k \in Limbs |-> (DivRem(x, n, k + 1) * Base + x[k]) \div n]

\* the double of an int below 2^16
IntToFloat(i) == <<0, 0, 0, 4 * i>>

\* int / int (true division) of 0 <= a <= b, 0 < b <= 8: the exact quotient
\* rounded once to 53 significant bits, ties to even; what is left of the
\* division below the last limb only breaks a tie upward
FDivInts(a, b) ==
    LET q == BigDivInt(IntToFloat(a), b)
        inexact == DivRem(IntToFloat(a), b, 1) # 0
        u == Ulp(q)
        r == q[1] % u
        odd == (q[1] \div u) % 2 = 1
        up == (2 * r > u) \/ (2 * r = u /\ (inexact \/ odd))
    IN  Norm([q EXCEPT ![1] = q[1] - r + (IF up THEN u ELSE 0)])

\* a variant of round_1 with a slip: the digits after the first are cut off
floor_1(x) == [tenths |-> BigMulInt(10, x)[4] \div 4]

\* round(x, 1) of a double 0 <= x < 2^10: the decimal with one digit nearest
\* the exact value of x, ties to the even digit; the float returned is the
\* double nearest tenths / 10
round_1(x) ==
    LET y == BigMulInt(10, x)
        whole == y[4] \div 4
        half == y[4] % 4 >= 2
        tie == y[4] % 4 = 2 /\ y[3] = 0 /\ y[2] = 0 /\ y[1] = 0
        up == half /\ (~tie \/ whole % 2 = 1)
    IN  [tenths |-> whole + (IF up THEN 1 ELSE 0)]

\* the accuracy expression of get_analytics; the int 0 is 0 tenths
accuracy(correct_attempts, total_attempts) ==
    IF total_attempts > 0
    THEN round_1(FMulInt(100, FDivInts(correct_attempts, total_attempts)))
    ELSE [tenths |-> 0]

DefaultWeeks == 12

get_analytics ==
    \E user_id \in Users :
        /\ pc = Idle
        /\ LET total_attempts == Cardinality(UserAttempts(user_id))
               correct_attempts ==
                   Cardinality({i \in UserAttempts(user_id) : attempts[i].verdict = "correct"})
           IN  resp' = [op |-> "get_analytics", status |-> 200,
                        user_id |-> user_id, now |-> now,
                        totalAttempts |-> total_attempts,
                        correctAttempts |-> correct_attempts,
                        accuracy |-> accuracy(correct_attempts, total_attempts),
                        patternStats |-> get_pattern_stats(user_id),
                        difficultyStats |-> get_difficulty_stats(user_id),
                        weeklyActivity |-> get_weekly_activity(user_id, DefaultWeeks, now)]
        /\ UNCHANGED <<attempts, sessions, bookmarks, now, pc, upd, nreviews>>
        /\ Session("return")

-----------------------------------------------------------------------------
(* Study plans: POST /study-plan/generate and GET /study-plan/{user_id} *)

\* the keys of the dict pattern_stats in the order they were inserted: the
\* tags in the order the loops of get_pattern_stats first meet them
RECURSIVE first_seen(_, _)
first_seen(keys, patterns) ==
    IF patterns = <<>> THEN keys
    ELSE first_seen(IF \E k \in DOMAIN keys : keys[k] = Head(patterns)
                    THEN keys
                    ELSE Append(keys, Head(patterns)),
                    Tail(patterns))

RECURSIVE pattern_keys_loop(_, _)
pattern_keys_loop(keys, rows) ==
    IF rows = <<>> THEN keys
    ELSE pattern_keys_loop(first_seen(keys, json_loads(attempts[Head(rows)].patterns)),
                           Tail(rows))

pattern_keys(user_id) == pattern_keys_loop(<<>>, Rows(UserAttempts(user_id)))

\* stats["correct"] / stats["total"] < 0.6 for counts below 2^16: the
\* quotient of two small ints is never within rounding of 0.6 unless it is
\* 3/5, whose double is the double 0.6
is_weak(stats) == stats.total > 0 /\ 5 * stats.correct < 3 * stats.total

DefaultWeakPatterns == <<"arrays", "strings", "trees">>

\* list[:n]
slice_to(list, n) == IF Len(list) > n THEN SubSeq(list, 1, n) ELSE list

\* the weak_patterns of generate_study_plan
weak_patterns(user_id) ==
    LET pattern_stats == get_pattern_stats(user_id)
        weak(pattern) == is_weak(pattern_stats[pattern])
        found == SelectSeq(pattern_keys(user_id), weak)
    IN  IF found = <<>> THEN DefaultWeakPatterns ELSE found

StudyPlan(user_id, focus_patterns, t) ==
    [user_id |-> user_id,
     created_at |-> t,
     week_number |-> 1,
     focus_patterns |-> json_dumps(focus_patterns),
     daily_goal |-> 3,
     difficulty_focus |-> "Medium"]

\* the outcomes of the chat completion and of the commit of
\* generate_study_plan
PlanOutcomes == {"return", "provider_failure", "commit_failure"}

\* generate_study_plan when _get_memori_manager raises: no session is opened
generate_study_plan_rejected ==
    \E u \in Users \cup {Blank}, has_key \in BOOLEAN :
        /\ pc = Idle
        /\ get_memori_manager(u, has_key) # 200
        /\ resp' = [op |-> "generate_study_plan",
                    status |-> get_memori_manager(u, has_key),
                    userId |-> u, has_key |-> has_key]
        /\ UNCHANGED <<attempts, sessions, bookmarks, now, pc, upd, nreviews>>
        /\ NoSession

\* generate_study_plan from get_session() on, while fewer than max_plans
\* plans are stored: the chat completion or the commit may raise, and then
\* no plan is stored
generate_study_plan(max_plans) ==
    \E u \in Users, exit \in PlanOutcomes :
        /\ pc = Idle
        /\ get_memori_manager(u, TRUE) = 200
        /\ LET r == run_calls(ProviderCalls("generate_study_plan"),
                              IF exit = "provider_failure" THEN {1} ELSE {}, 1)
           IN  IF exit = "return"
               THEN /\ Len(plans) < max_plans
                    /\ plans' = Append(plans,
                                       StudyPlan(u, slice_to(weak_patterns(u), 5), now))
                    /\ resp' = [op |-> "generate_study_plan", status |-> 200,
                                userId |-> u, has_key |-> TRUE,
                                planId |-> Len(plans) + 1,
                                weekNumber |-> 1,
                                focusPatterns |-> slice_to(weak_patterns(u), 5),
                                calls |-> r.calls, failed |-> r.failed]
               ELSE /\ plans' = plans
                    /\ resp' = [op |-> "generate_study_plan", status |-> 500,
                                userId |-> u, has_key |-> TRUE, exit |-> exit,
                                calls |-> r.calls, failed |-> r.failed]
        /\ open_sessions' = finally_close(get_session(open_sessions), exit)
        /\ UNCHANGED <<attempts, sessions, bookmarks, now, pc, upd, nreviews, inflight>>

\* the second commit of save_attempt or of evaluate raises: the review state
\* calculate_next_review assigned is not written and the request fails
schedule_commit_failure ==
    /\ pc.op \in {"save_attempt", "evaluate"}
    /\ resp' = [op |-> pc.op, status |-> 500, exit |-> "commit_failure"]
    /\ pc' = Idle
    /\ open_sessions' = finally_close(open_sessions, "commit_failure")
    /\ UNCHANGED <<attempts, sessions, bookmarks, plans, now, upd, nreviews, inflight>>

-----------------------------------------------------------------------------
(* Reading a user's records: POST /attempts/history, GET /bookmarks/{user}, *)
(* GET /mock/history/{user}, GET /study-plan/{user} and GET /export/...     *)

\* ORDER BY key DESC: every arrangement of the rows in descending order of
\* key, a function of the row (the order of rows with equal keys is not fixed)
OrderByKeyDesc(rows, key) ==
    {s \in [1..Cardinality(rows) -> rows] :
        /\ \A i, j \in DOMAIN s : i # j => s[i] # s[j]
        /\ \A i, j \in DOMAIN s : i < j => key[s[i]] >= key[s[j]]}

\* OFFSET n of SQLite: a negative n is no offset
SqlOffset(s, n) ==
    IF n <= 0 THEN s
    ELSE IF n >= Len(s) THEN <<>>
    ELSE SubSeq(s, n + 1, Len(s))

\* no filter on a field of a HistoryFilter (None or an empty string)
NoFilter == ""

\* ProblemAttempt.patterns.contains(pattern): the pattern is a substring of
\* the JSON text; no tag of Tags is part of another one or of the JSON
\* punctuation
contains(text, pattern) == \E k \in DOMAIN json_loads(text) : json_loads(text)[k] = pattern

\* the bodies of POST /attempts/history
HistoryFilters ==
    [userId : Users,
     difficulty : {NoFilter, "Easy", "Medium"},
     pattern : {NoFilter, "dp"},
     verdict : {NoFilter, "correct"},
     limit : {0 - 1, 1, 50},
     offset : {0, 1}]

\* the rows of the query of get_history before ORDER BY
HistoryRows(req) ==
    {i \in DOMAIN attempts :
        /\ attempts[i].user_id = req.userId
        /\ req.difficulty # NoFilter => attempts[i].difficulty = req.difficulty
        /\ req.verdict # NoFilter => attempts[i].verdict = req.verdict
        /\ req.pattern # NoFilter => contains(attempts[i].patterns, req.pattern)}

attempt_created_at == [i \in DOMAIN attempts |-> attempts[i].created_at]

get_history_from(requests) ==
    \E req \in requests :
        /\ pc = Idle
        /\ \E s \in OrderByKeyDesc(HistoryRows(req), attempt_created_at) :
              resp' = [op |-> "get_history", status |-> 200, user_id |-> req.userId,
                       total |-> Cardinality(HistoryRows(req)),
                       attempts |-> SqlLimit(SqlOffset(s, req.offset), req.limit)]
        /\ UNCHANGED <<attempts, sessions, bookmarks, now, pc, upd, nreviews>>
        /\ Session("return")

get_history == get_history_from(HistoryFilters)

\* the ids of the bookmarks, and the bookmark of an id
BookmarkIds(rows) == {b.id : b \in rows}
BookmarkOf(id) == CHOOSE b \in bookmarks : b.id = id
bookmark_created_at == [id \in BookmarkIds(bookmarks) |-> BookmarkOf(id).created_at]

\* get_bookmarks, for every user and for no collection or one of them
get_bookmarks ==
    \E user_id \in Users, collection \in {NoFilter} \cup Collections :
        /\ pc = Idle
        /\ LET rows == {b \in bookmarks :
                           /\ b.user_id = user_id
                           /\ collection # NoFilter => b.collection_name = collection}
           IN  \E s \in OrderByKeyDesc(BookmarkIds(rows), bookmark_created_at) :
                  resp' = [op |-> "get_bookmarks", status |-> 200, user_id |-> user_id,
                           bookmarks |-> [k \in DOMAIN s |-> BookmarkOf(s[k])],
                           collections |-> {b.collection_name :
                                               b \in {b \in bookmarks : b.user_id = user_id}}]
        /\ UNCHANGED <<attempts, sessions, bookmarks, now, pc, upd, nreviews>>
        /\ Session("return")

session_created_at == [i \in DOMAIN sessions |-> sessions[i].created_at]

get_mock_history ==
    \E user_id \in Users :
        /\ pc = Idle
        /\ \E s \in OrderByKeyDesc({i \in DOMAIN sessions : sessions[i].user_id = user_id},
                                   session_created_at) :
              resp' = [op |-> "get_mock_history", status |-> 200, user_id |-> user_id,
                       sessions |-> SqlLimit(s, 20)]
        /\ UNCHANGED <<attempts, sessions, bookmarks, now, pc, upd, nreviews>>
        /\ Session("return")

plan_created_at == [i \in DOMAIN plans |-> plans[i].created_at]

get_study_plans ==
    \E user_id \in Users :
        /\ pc = Idle
        /\ \E s \in OrderByKeyDesc({i \in DOMAIN plans : plans[i].user_id = user_id},
                                   plan_created_at) :
              resp' = [op |-> "get_study_plans", status |-> 200, user_id |-> user_id,
                       plans |-> SqlLimit(s, 5)]
        /\ UNCHANGED <<attempts, sessions, bookmarks, now, pc, upd, nreviews>>
        /\ Session("return")

\* sorted(pattern_stats.items(), key=total, reverse=True): the keys in
\* descending order of their total, keys of equal total in the order of the
\* dict (the sort is stable)
sorted_by_total(keys, pattern_stats) ==
    LET n == Len(keys)
        before(a, b) ==
            \/ pattern_stats[keys[a]].total > pattern_stats[keys[b]].total
            \/ pattern_stats[keys[a]].total = pattern_stats[keys[b]].total /\ a < b
        order == CHOOSE o \in [1..n -> 1..n] :
                     /\ \A i, j \in 1..n : i # j => o[i] # o[j]
                     /\ \A i, j \in 1..n : i < j => before(o[i], o[j])
    IN  [k \in 1..n |-> keys[order[k]]]

\* export_markdown: the report is represented by what it is rendered from,
\* the counts, the stats, the 10 most used patterns and the 20 most recent
\* attempts
export_markdown ==
    \E user_id \in Users :
        /\ pc = Idle
        /\ LET correct == Cardinality({i \in UserAttempts(user_id) :
                                          attempts[i].verdict = "correct"})
           IN  \E s \in OrderByKeyDesc(UserAttempts(user_id), attempt_created_at) :
                  resp' = [op |-> "export_markdown", status |-> 200, user_id |-> user_id,
                           total |-> Len(s),
                           correct |-> correct,
                           percent |-> accuracy(correct, Len(s)),
                           patternStats |-> get_pattern_stats(user_id),
                           difficultyStats |-> get_difficulty_stats(user_id),
                           top_patterns |->
                               slice_to(sorted_by_total(pattern_keys(user_id),
                                                        get_pattern_stats(user_id)), 10),
                           attempts |-> slice_to(s, 20)]
        /\ UNCHANGED <<attempts, sessions, bookmarks, now, pc, upd, nreviews>>
        /\ Session("return")

\* export_resume_bullets: the bullets are represented by the numbers they
\* are rendered from
export_resume_bullets ==
    \E user_id \in Users :
        /\ pc = Idle
        /\ resp' = [op |-> "export_resume_bullets", status |-> 200, user_id |-> user_id,
                    total |-> Cardinality(UserAttempts(user_id)),
                    correct |-> Cardinality({i \in UserAttempts(user_id) :
                                                attempts[i].verdict = "correct"}),
                    patterns_count |-> Cardinality(DOMAIN get_pattern_stats(user_id)),
                    top_patterns |->
                        slice_to(sorted_by_total(pattern_keys(user_id),
                                                 get_pattern_stats(user_id)), 3)]
        /\ UNCHANGED <<attempts, sessions, bookmarks, now, pc, upd, nreviews>>
        /\ Session("return")

-----------------------------------------------------------------------------
(* Problem generation: the parse loop of generate_personalized_problem.    *)
(* A string is a sequence of tokens: a space, a line break, a comma, one   *)
(* of the four prefixes, or a word.                                        *)

SP == " "
NL == "\n"
Prefixes == {"Title:", "Difficulty:", "Patterns:", "Problem:"}
Whitespace == {SP, NL}

\* str.strip()
RECURSIVE lstrip(_)
lstrip(s) == IF s # <<>> /\ Head(s) \in Whitespace THEN lstrip(Tail(s)) ELSE s
RECURSIVE rstrip(_)
rstrip(s) ==
    IF s # <<>> /\ s[Len(s)] \in Whitespace THEN rstrip(SubSeq(s, 1, Len(s) - 1)) ELSE s
strip(s) == rstrip(lstrip(s))

\* sep.join(parts)
RECURSIVE join(_, _)
join(sep, parts) ==
    IF parts = <<>> THEN <<>>
    ELSE IF Len(parts) = 1 THEN parts[1]
    ELSE parts[1] \o <<sep>> \o join(sep, Tail(parts))

\* s.split(sep): the pieces of s between the separators, empty ones included
RECURSIVE split(_, _)
split(s, sep) ==
    IF \A k \in DOMAIN s : s[k] # sep THEN <<s>>
    ELSE LET k == CHOOSE k \in DOMAIN s : s[k] = sep /\ \A j \in 1..(k - 1) : s[j] # sep
         IN  <<SubSeq(s, 1, k - 1)>> \o split(SubSeq(s, k + 1, Len(s)), sep)

\* str.splitlines(): the lines of a text; a line break at the end of the text
\* does not begin a further line, and the empty text has no line
splitlines(text) ==
    LET pieces == split(text, NL)
    IN  IF pieces[Len(pieces)] = <<>> THEN SubSeq(pieces, 1, Len(pieces) - 1) ELSE pieces

\* stripped.startswith(prefix) and stripped.split(prefix, 1)[1]
startswith(stripped, prefix) == stripped # <<>> /\ Head(stripped) = prefix
after_prefix(stripped) == Tail(stripped)

\* [p.strip() for p in pats.split(",") if p.strip()]
non_empty_tags(pats) ==
    LET parts == split(pats, ",")
    IN  SelectSeq([k \in DOMAIN parts |-> strip(parts[k])], LAMBDA p : p # <<>>)

\* x or y on strings and lists
or_else(x, y) == IF x # <<>> THEN x ELSE y

DefaultTitle == <<"Practice Problem">>

\* the state of the loop before its first line
parse_start(difficulty, patterns) ==
    [title |-> DefaultTitle, parsed_difficulty |-> difficulty,
     parsed_patterns |-> patterns, statement_lines |-> <<>>, in_statement |-> FALSE]

\* a variant of the loop body with a slip: an empty title replaces the title
parse_line_empty_title(st, line, difficulty, patterns) ==
    LET stripped == strip(line)
    IN  IF startswith(stripped, "Title:")
        THEN [st EXCEPT !.title = strip(after_prefix(stripped))]
        ELSE IF startswith(stripped, "Difficulty:")
        THEN [st EXCEPT !.parsed_difficulty =
                 or_else(strip(after_prefix(stripped)), or_else(st.parsed_difficulty, difficulty))]
        ELSE IF startswith(stripped, "Patterns:")
        THEN [st EXCEPT !.parsed_patterns =
                 or_else(non_empty_tags(after_prefix(stripped)),
                         or_else(st.parsed_patterns, patterns))]
        ELSE IF startswith(stripped, "Problem:")
        THEN [st EXCEPT !.in_statement = TRUE]
        ELSE IF st.in_statement
        THEN [st EXCEPT !.statement_lines = Append(@, line)]
        ELSE st

\* one pass of the loop body
parse_line(st, line, difficulty, patterns) ==
    LET stripped == strip(line)
    IN  IF startswith(stripped, "Title:")
        THEN [st EXCEPT !.title = or_else(strip(after_prefix(stripped)), st.title)]
        ELSE IF startswith(stripped, "Difficulty:")
        THEN [st EXCEPT !.parsed_difficulty =
                 or_else(strip(after_prefix(stripped)), or_else(st.parsed_difficulty, difficulty))]
        ELSE IF startswith(stripped, "Patterns:")
        THEN [st EXCEPT !.parsed_patterns =
                 or_else(non_empty_tags(after_prefix(stripped)),
                         or_else(st.parsed_patterns, patterns))]
        ELSE IF startswith(stripped, "Problem:")
        THEN [st EXCEPT !.in_statement = TRUE]
        ELSE IF st.in_statement
        THEN [st EXCEPT !.statement_lines = Append(@, line)]
        ELSE st

RECURSIVE parse_lines(_, _, _, _)
parse_lines(st, lines, difficulty, patterns) ==
    IF lines = <<>> THEN st
    ELSE parse_lines(parse_line(st, Head(lines), difficulty, patterns), Tail(lines),
                     difficulty, patterns)

\* the ProblemMetadata that generate_personalized_problem builds from the
\* text of the model's answer
parse_problem(text, difficulty, patterns) ==
    LET st == parse_lines(parse_start(difficulty, patterns), splitlines(text),
                          difficulty, patterns)
    IN  [title |-> st.title,
         difficulty |-> st.parsed_difficulty,
         patterns |-> st.parsed_patterns,
         statement |-> or_else(strip(join(NL, st.statement_lines)), text)]

-----------------------------------------------------------------------------
(* Requests to the LLM provider and the memory service: POST /init,        *)
(* /profile, /problem, /hint, /progress and /problem/company               *)

\* a handler that makes its calls after _get_memori_manager and touches no
\* table
provider_request(op) ==
    \E u \in Users \cup {Blank}, has_key \in BOOLEAN, failing \in Failures(op) :
        /\ pc = Idle
        /\ LET r == run_calls(ProviderCalls(op), failing, 1)
           IN  resp' = IF get_memori_manager(u, has_key) # 200
                       THEN [op |-> op, status |-> get_memori_manager(u, has_key),
                             userId |-> u, has_key |-> has_key,
                             calls |-> <<>>, failed |-> {}]
                       ELSE [op |-> op, status |-> r.status,
                             userId |-> u, has_key |-> has_key,
                             calls |-> r.calls, failed |-> r.failed]
        /\ UNCHANGED <<attempts, sessions, bookmarks, now, pc, upd, nreviews>>
        /\ NoSession

init_session == provider_request("init_session")
save_profile == provider_request("save_profile")
generate_hint_endpoint == provider_request("generate_hint")
summarize_progress == provider_request("summarize_progress")

\* the lines a response text is made of: empty, blank, each prefix with and
\* without a value, and lines without a prefix at their start
ResponseLines ==
    {<<>>,
     <<SP>>,
     <<"Title:", SP, "a">>,
     <<SP, "Title:", "b", SP>>,
     <<"Title:", SP>>,
     <<"Difficulty:", SP, "a">>,
     <<"Difficulty:">>,
     <<"Patterns:", "a", ",", SP, "b">>,
     <<"Patterns:", SP, ",">>,
     <<"Problem:">>,
     <<"Problem:", SP, "a">>,
     <<SP, "a", SP, "b">>,
     <<"b", "Title:", "a">>}

\* the texts of at most max_lines lines
Texts(max_lines) ==
    {join(NL, ls) : ls \in UNION {[1..n -> ResponseLines] : n \in 0..max_lines}}

\* the difficulty and the patterns of a ProblemRequest
ProblemRequests ==
    [userId : {"u1"}, difficulty : {<<"Medium">>}, patterns : {<<>>, << <<"dp">> >>}]

\* generate_problem: the weakness summary, whose failure is caught, then
\* generate_personalized_problem on the text the model answers
generate_problem_from(requests, texts) ==
    \E req \in requests, failing \in Failures("generate_problem"), text \in texts :
        /\ pc = Idle
        /\ get_memori_manager(req.userId, TRUE) = 200
        /\ LET r == run_calls(ProviderCalls("generate_problem"), failing, 1)
           IN  resp' = IF r.status # 200
                       THEN [op |-> "generate_problem", status |-> r.status,
                             calls |-> r.calls, failed |-> r.failed]
                       ELSE [op |-> "generate_problem", status |-> 200,
                             calls |-> r.calls, failed |-> r.failed,
                             difficulty |-> req.difficulty, patterns |-> req.patterns,
                             text |-> text,
                             problem |-> parse_problem(text, req.difficulty, req.patterns)]
        /\ UNCHANGED <<attempts, sessions, bookmarks, now, pc, upd, nreviews>>
        /\ NoSession

generate_problem == generate_problem_from(ProblemRequests, Texts(MaxLines))

\* company_patterns.get(req.company, ["arrays", "strings", "trees"])
company_patterns(company) ==
    CASE company = "Google" ->
            << <<"graphs">>, <<"dynamic programming">>, <<"system design">>, <<"arrays">> >>
      [] company = "Netflix" ->
            << <<"system design">>, <<"distributed systems">>, <<"caching">> >>
      [] OTHER -> << <<"arrays">>, <<"strings">>, <<"trees">> >>

CompanyRequests ==
    [userId : {"u1"}, difficulty : {<<"Hard">>}, company : {"Google", "Netflix", "Acme"}]

generate_company_problem_from(requests, texts) ==
    \E req \in requests, failing \in Failures("generate_company_problem"), text \in texts :
        /\ pc = Idle
        /\ get_memori_manager(req.userId, TRUE) = 200
        /\ LET r == run_calls(ProviderCalls("generate_company_problem"), failing, 1)
               patterns == slice_to(company_patterns(req.company), 3)
           IN  resp' = IF r.status # 200
                       THEN [op |-> "generate_company_problem", status |-> r.status,
                             calls |-> r.calls, failed |-> r.failed]
                       ELSE [op |-> "generate_company_problem", status |-> 200,
                             calls |-> r.calls, failed |-> r.failed,
                             difficulty |-> req.difficulty, patterns |-> patterns,
                             text |-> text,
                             problem |-> parse_problem(text, req.difficulty, patterns)]
        /\ UNCHANGED <<attempts, sessions, bookmarks, now, pc, upd, nreviews>>
        /\ NoSession

generate_company_problem == generate_company_problem_from(CompanyRequests, Texts(MaxLines))

-----------------------------------------------------------------------------
(* Requests that run side by side: complete_review and add_bookmark, each  *)
(* split at the point where another request's commit can fall between its  *)
(* query and its own commit                                                *)

\* the UPDATE the session emits at commit for an attempt it loaded as loaded
\* and holds as attempt: it sets the columns whose value differs from the
\* loaded one and leaves the other columns of the row as they are
flush(row, loaded, attempt) ==
    [row EXCEPT
        !.review_interval_days =
            IF attempt.review_interval_days # loaded.review_interval_days
            THEN attempt.review_interval_days ELSE @,
        !.ease_factor =
            IF attempt.ease_factor # loaded.ease_factor THEN attempt.ease_factor ELSE @,
        !.next_review_at =
            IF attempt.next_review_at # loaded.next_review_at
            THEN attempt.next_review_at ELSE @]

\* complete_review of request p from get_session() to the return of
\* calculate_next_review, while fewer than max_reviews reviews were begun
review_load(p, max_reviews) ==
    \E attempt_id \in 1..(Len(attempts) + 1), was_correct \in BOOLEAN :
        /\ pc = Idle
        /\ inflight[p] = Idle
        /\ IF attempt_id \notin DOMAIN attempts
           THEN /\ resp' = [op |-> "complete_review", status |-> 404, id |-> attempt_id]
                /\ open_sessions' = finally_close(get_session(open_sessions), "not_found")
                /\ UNCHANGED inflight
           ELSE IF date_overflow(attempts[attempt_id], was_correct, now)
           THEN /\ resp' = [op |-> "complete_review", status |-> 500, id |-> attempt_id,
                            was_correct |-> was_correct, exit |-> "overflow"]
                /\ open_sessions' = finally_close(get_session(open_sessions), "overflow")
                /\ UNCHANGED inflight
           ELSE /\ nreviews + Cardinality({q \in Procs : inflight[q] # Idle}) < max_reviews
                /\ inflight' = [inflight EXCEPT ![p] =
                      [op |-> "complete_review", id |-> attempt_id,
                       was_correct |-> was_correct, t |-> now,
                       loaded |-> attempts[attempt_id],
                       attempt |-> calculate_next_review(attempts[attempt_id],
                                                         was_correct, now)]]
                /\ open_sessions' = get_session(open_sessions)
                /\ resp' = NoResp
        /\ UNCHANGED <<attempts, sessions, bookmarks, plans, now, pc, upd, nreviews>>

\* complete_review of request p from db.commit() to its return
review_commit(p) ==
    /\ inflight[p] # Idle
    /\ inflight[p].op = "complete_review"
    /\ LET r == inflight[p]
       IN  /\ attempts' = [attempts EXCEPT ![r.id] = flush(@, r.loaded, r.attempt)]
           /\ resp' = [op |-> "complete_review", status |-> 200, attemptId |-> r.id,
                       nextReviewAt |-> isoformat(r.attempt.next_review_at),
                       intervalDays |-> r.attempt.review_interval_days]
           /\ upd' = [id |-> r.id,
                      interval |-> r.loaded.review_interval_days,
                      ease |-> r.loaded.ease_factor,
                      was_correct |-> r.was_correct,
                      t |-> r.t]
    /\ inflight' = [inflight EXCEPT ![p] = Idle]
    /\ nreviews' = nreviews + 1
    /\ open_sessions' = finally_close(open_sessions, "return")
    /\ UNCHANGED <<sessions, bookmarks, plans, now, pc>>

\* add_bookmark of request p from get_session() to the result of its query
bookmark_check(p, requests) ==
    \E req \in requests :
        /\ pc = Idle
        /\ inflight[p] = Idle
        /\ inflight' = [inflight EXCEPT ![p] =
              [op |-> "add_bookmark", req |-> req, existing |-> ExistingBookmarks(req)]]
        /\ open_sessions' = get_session(open_sessions)
        /\ resp' = NoResp
        /\ UNCHANGED <<attempts, sessions, bookmarks, plans, now, pc, upd, nreviews>>

\* add_bookmark of request p from "if existing:" to its return
bookmark_commit(p) ==
    /\ inflight[p] # Idle
    /\ inflight[p].op = "add_bookmark"
    /\ LET r == inflight[p]
       IN  IF r.existing # {}
           THEN /\ \E existing \in r.existing :
                      resp' = [op |-> "add_bookmark", status |-> 200, req |-> r.req,
                               bookmarkId |-> existing.id,
                               message |-> "Already bookmarked"]
                /\ UNCHANGED bookmarks
           ELSE /\ Cardinality(bookmarks) < MaxBookmarks
                /\ bookmarks' = bookmarks \cup {Bookmark(NextRowId(bookmarks), r.req)}
                /\ resp' = [op |-> "add_bookmark", status |-> 200, req |-> r.req,
                            bookmarkId |-> NextRowId(bookmarks),
                            message |-> NoNotes]
    /\ inflight' = [inflight EXCEPT ![p] = Idle]
    /\ open_sessions' = finally_close(open_sessions, "return")
    /\ UNCHANGED <<attempts, sessions, plans, now, pc, upd, nreviews>>

-----------------------------------------------------------------------------

Next ==
    \/ Tick
    \/ save_attempt_insert
    \/ save_attempt_schedule
    \/ evaluate_rejected
    \/ evaluate_provider_failure
    \/ evaluate_insert
    \/ evaluate_schedule
    \/ complete_review(MaxReviews)
    \/ get_due_for_review
    \/ start_mock_session
    \/ complete_mock_session
    \/ get_analytics
    \/ get_attempt
    \/ get_mock_session
    \/ add_bookmark
    \/ delete_bookmark
    \/ schedule_commit_failure
    \/ generate_study_plan_rejected
    \/ generate_study_plan(MaxPlans)
    \/ get_history
    \/ get_bookmarks
    \/ get_mock_history
    \/ get_study_plans
    \/ export_markdown
    \/ export_resume_bullets
    \/ init_session
    \/ save_profile
    \/ generate_problem
    \/ generate_hint_endpoint
    \/ summarize_progress
    \/ generate_company_problem
    \/ \E p \in Procs : review_load(p, MaxReviews)
    \/ \E p \in Procs : review_commit(p)
    \/ \E p \in Procs : bookmark_check(p, BookmarkRequests)
    \/ \E p \in Procs : bookmark_commit(p)

\* the whole backend
Spec == Init /\ [][Next]_vars

-----------------------------------------------------------------------------
(* The specifications the properties are checked under: the backend with   *)
(* the requests of one concern and their inputs restricted to a scope.     *)

\* an attempt at the problem PlainProblem
Plain(attempt) ==
    /\ attempt.difficulty = PlainProblem.difficulty
    /\ attempt.patterns = json_dumps(PlainProblem.patterns)

\* the requests of the given users to save an attempt at one of the given
\* problems with one of the given verdicts, outside a mock session
Practice(users, problems, verdicts) ==
    [userId : users, problem : problems, verdict : verdicts, mockSessionId : {NULL}]

\* one attempt of one user, reviewed up to MaxStreak times at one instant
StreakScope ==
    /\ now = 0
    /\ Len(attempts) <= 1
    /\ \A i \in DOMAIN attempts :
          /\ attempts[i].user_id = "u1" /\ attempts[i].mock_session_id = NULL
          /\ Plain(attempts[i])

NextStreak ==
    \/ save_attempt_from(Practice({"u1"}, {PlainProblem}, Verdicts), {0}) /\ StreakScope'
    \/ save_attempt_schedule /\ StreakScope'
    \/ evaluate_from({"u1"}, {PlainProblem}) /\ StreakScope'
    \/ evaluate_schedule /\ StreakScope'
    \/ complete_review(MaxStreak) /\ StreakScope'

SpecStreak == Init /\ [][NextStreak]_vars

\* an evaluation whose first provider call raised
FirstCallFails == resp.failed = {"evaluate_solution"}

\* an evaluation none of whose provider calls raised
NoCaughtFailure == pc.failed = {}

\* one user's attempts over time, saved, evaluated and reviewed
ReviewScope ==
    /\ Len(attempts) <= MaxSaved
    /\ \A i \in DOMAIN attempts :
          /\ attempts[i].user_id = "u1"
          /\ Plain(attempts[i])
          /\ attempts[i].verdict \in {"correct", "incorrect"}
          /\ attempts[i].mock_session_id = NULL

NextReview ==
    \/ Tick
    \/ save_attempt_from(Practice({"u1"}, {PlainProblem}, {"correct", "incorrect"}),
                         0..MaxSkew) /\ ReviewScope'
    \/ save_attempt_schedule
    \/ evaluate_rejected
    \/ evaluate_provider_failure /\ FirstCallFails'
    \/ evaluate_from({"u1"}, {PlainProblem}) /\ ReviewScope' /\ NoCaughtFailure'
    \/ evaluate_schedule
    \/ complete_review(MaxReviews)

SpecReview == Init /\ [][NextReview]_vars

\* attempts of two users saved at different instants and selected for review
DueScope ==
    /\ Len(attempts) <= MaxDue
    /\ \A i \in DOMAIN attempts :
          /\ attempts[i].user_id \in Users
          /\ Plain(attempts[i])
          /\ attempts[i].verdict \in {"correct", "incorrect"}
          /\ attempts[i].mock_session_id = NULL

NextDue ==
    \/ Tick
    \/ save_attempt_from(Practice(Users, {PlainProblem}, {"correct", "incorrect"}), {0})
           /\ DueScope'
    \/ save_attempt_schedule
    \/ get_due_for_review

SpecDue == Init /\ [][NextDue]_vars

\* one user's attempts saved into mock sessions at one instant, and the
\* sessions completed; the attempts saved outside a session are correct ones
MockScope ==
    /\ now = 0
    /\ \A i \in DOMAIN attempts : attempts[i].user_id = "u1" /\ Plain(attempts[i])
    /\ \A i \in DOMAIN sessions : sessions[i].user_id = "u1"

NextMock ==
    \/ save_attempt_from([userId : {"u1"}, problem : {PlainProblem}, verdict : Verdicts,
                          mockSessionId : 1..MaxSessions]
                         \cup Practice({"u1"}, {PlainProblem}, {"correct"}), {0})
           /\ MockScope'
    \/ save_attempt_schedule
    \/ start_mock_session /\ MockScope'
    \/ complete_mock_session

SpecMock == Init /\ [][NextMock]_vars

\* one user's attempts saved on the days of more than a week, and the
\* analytics of both users read on each day
WeeklyScope ==
    /\ Len(attempts) <= MaxLogged
    /\ \A i \in DOMAIN attempts :
          /\ attempts[i].verdict = "incorrect"
          /\ attempts[i].mock_session_id = NULL

NextWeekly ==
    \/ Clock(MaxDays * DayTicks) /\ pc = Idle
    \/ save_attempt_from(Practice({"u1"}, {PlainProblem}, {"incorrect"}), {0}) /\ WeeklyScope'
    \/ save_attempt_schedule
    \/ get_analytics

SpecWeekly == Init /\ [][NextWeekly]_vars

\* attempts of two users at problems with up to two pattern tags, of every
\* verdict, saved at one instant
TaggedProblems == {problem \in Problems : problem.difficulty = PlainProblem.difficulty}

PatternScope ==
    /\ Len(attempts) <= MaxTagged
    /\ \A i \in DOMAIN attempts : attempts[i].mock_session_id = NULL

NextPattern ==
    \/ save_attempt_from(Practice(Users, TaggedProblems, Verdicts), {0}) /\ PatternScope'
    \/ save_attempt_schedule
    \/ get_analytics

SpecPattern == Init /\ [][NextPattern]_vars

\* attempts of two users at problems of every difficulty label, correct or
\* not, saved at one instant
GradedProblems == {problem \in Problems : problem.patterns = PlainProblem.patterns}

DifficultyScope ==
    /\ Len(attempts) <= MaxTagged
    /\ \A i \in DOMAIN attempts : attempts[i].mock_session_id = NULL

NextDifficulty ==
    \/ save_attempt_from(Practice(Users, GradedProblems, {"correct", "incorrect"}), {0})
           /\ DifficultyScope'
    \/ save_attempt_schedule
    \/ get_analytics

SpecDifficulty == Init /\ [][NextDifficulty]_vars

\* attempts of two users, correct or not, saved at one instant
AccuracyScope ==
    /\ Len(attempts) <= MaxGraded
    /\ \A i \in DOMAIN attempts : attempts[i].mock_session_id = NULL

NextAccuracy ==
    \/ save_attempt_from(Practice(Users, {PlainProblem},
                                  {"correct", "partially_correct", "incorrect"}), {0})
           /\ AccuracyScope'
    \/ save_attempt_schedule
    \/ get_analytics

SpecAccuracy == Init /\ [][NextAccuracy]_vars

\* bookmarks of two users added to two collections and deleted
NextBookmark ==
    \/ add_bookmark
    \/ delete_bookmark

SpecBookmark == Init /\ [][NextBookmark]_vars

\* one attempt, one mock session and the bookmarks of one user, looked up by
\* identifier
LookupScope ==
    /\ now = 0
    /\ Len(attempts) <= MaxSaved

NextLookup ==
    \/ save_attempt_from(Practice({"u1"}, {PlainProblem}, {"incorrect"}), {0}) /\ LookupScope'
    \/ save_attempt_schedule
    \/ start_mock_session /\ MockScope'
    \/ add_bookmark_from([userId : {"u1"}, attemptId : 1..2, collectionName : {"Saved"},
                          notes : {NoNotes}])
    \/ get_attempt
    \/ complete_review(MaxReviews)
    \/ get_mock_session
    \/ complete_mock_session
    \/ delete_bookmark

SpecLookup == Init /\ [][NextLookup]_vars

\* requests with and without a user id and an OpenAI key
ConfigScope ==
    /\ Len(attempts) <= MaxSaved
    /\ \A i \in DOMAIN attempts : attempts[i].verdict \in {"correct", "incorrect"}

NextConfig ==
    \/ Tick
    \/ evaluate_rejected
    \/ evaluate_provider_failure
    \/ evaluate_from(Users, {PlainProblem}) /\ ConfigScope'
    \/ evaluate_schedule
    \/ save_attempt_from(Practice(Users \cup {Blank}, {PlainProblem}, {"correct", "incorrect"}),
                         0..MaxSkew) /\ ConfigScope'
    \/ save_attempt_schedule

SpecConfig == Init /\ [][NextConfig]_vars

\* one user's requests that open a session, left by every exit: normal
\* return, not found, provider failure and commit failure
SessionScope ==
    /\ now = 0
    /\ Len(attempts) <= MaxSaved
    /\ Len(plans) <= 1
    /\ \A i \in DOMAIN plans : plans[i].user_id = "u1"

NextSession ==
    \/ save_attempt_from(Practice({"u1"}, {PlainProblem}, {"correct"}), {0}) /\ SessionScope'
    \/ save_attempt_schedule
    \/ schedule_commit_failure
    \/ evaluate_rejected
    \/ evaluate_provider_failure /\ FirstCallFails'
    \/ evaluate_from({"u1"}, {PlainProblem}) /\ SessionScope' /\ NoCaughtFailure'
    \/ evaluate_schedule
    \/ get_attempt
    \/ complete_review(MaxReviews)
    \/ complete_mock_session
    \/ generate_study_plan_rejected
    \/ generate_study_plan(MaxPlans) /\ SessionScope'

SpecSession == Init /\ [][NextSession]_vars

\* every operation of the backend on the records of one user at one
\* instant: one attempt, one mock session, the bookmark of the attempt and
\* one study plan, read by both users
FrameScope ==
    /\ now = 0
    /\ Len(attempts) <= 1
    /\ Len(sessions) <= 1
    /\ Len(plans) <= 1
    /\ \A i \in DOMAIN sessions : sessions[i].user_id = "u1"
    /\ \A i \in DOMAIN plans : plans[i].user_id = "u1"

FrameBookmarks ==
    [userId : {"u1"}, attemptId : {1}, collectionName : {"Saved"}, notes : {NoNotes}]

FrameFilters ==
    [userId : {"u1"}, difficulty : {NoFilter}, pattern : {NoFilter, "dp"},
     verdict : {NoFilter}, limit : {50}, offset : {0}]

NextFrame ==
    \/ save_attempt_from([userId : {"u1"}, problem : {PlainProblem}, verdict : {"incorrect"},
                          mockSessionId : {1}], {0}) /\ FrameScope'
    \/ save_attempt_schedule
    \/ evaluate_from({"u1"}, {PlainProblem}) /\ FrameScope'
    \/ evaluate_schedule
    \/ complete_review(MaxReviews)
    \/ get_due_for_review
    \/ get_history_from(FrameFilters)
    \/ get_attempt
    \/ get_analytics
    \/ export_markdown
    \/ export_resume_bullets
    \/ add_bookmark_from(FrameBookmarks)
    \/ get_bookmarks
    \/ delete_bookmark
    \/ start_mock_session /\ FrameScope'
    \/ get_mock_session
    \/ complete_mock_session
    \/ get_mock_history
    \/ generate_study_plan(MaxPlans) /\ FrameScope'
    \/ get_study_plans

SpecFrame == Init /\ [][NextFrame]_vars

\* two users' attempts, mock sessions and bookmarks at one instant, and the
\* per-user queries on them
OwnerScope ==
    /\ now = 0
    /\ Len(attempts) <= MaxSaved

OwnerBookmarks ==
    [userId : Users, attemptId : {1}, collectionName : {"Saved"}, notes : {NoNotes}]

OwnerFilters ==
    [userId : Users, difficulty : {NoFilter}, pattern : {NoFilter}, verdict : {NoFilter},
     limit : {50}, offset : {0}]

NextOwner ==
    \/ save_attempt_from([userId : Users, problem : {PlainProblem}, verdict : {"incorrect"},
                          mockSessionId : {NULL, 1}], {0}) /\ OwnerScope'
    \/ save_attempt_schedule
    \/ start_mock_session
    \/ add_bookmark_from(OwnerBookmarks)
    \/ get_history_from(OwnerFilters)
    \/ get_bookmarks
    \/ get_mock_history

SpecOwner == Init /\ [][NextOwner]_vars

\* one user's requests to the provider and the memory service, each call of
\* which may raise, on short response texts
ProviderScope ==
    /\ now = 0
    /\ Len(attempts) <= MaxSaved

\* the empty text and a text with a title and a statement
ProviderTexts == {<<>>, <<"Title:", SP, "a", NL, "Problem:", NL, "a", SP, "b">>}

NextProvider ==
    \/ init_session
    \/ save_profile
    \/ generate_problem_from(ProblemRequests, ProviderTexts)
    \/ generate_hint_endpoint
    \/ evaluate_rejected
    \/ evaluate_provider_failure
    \/ evaluate_from({"u1"}, {PlainProblem}) /\ ProviderScope'
    \/ evaluate_schedule
    \/ summarize_progress
    \/ generate_company_problem_from(CompanyRequests, ProviderTexts)
    \/ generate_study_plan(MaxPlans)

SpecProvider == Init /\ [][NextProvider]_vars

\* two requests that review the same attempt side by side
RaceScope ==
    /\ now = 0
    /\ Len(attempts) <= 1

NextRace ==
    \/ save_attempt_from(Practice({"u1"}, {PlainProblem}, {"correct", "incorrect"}), {0})
           /\ RaceScope'
    \/ save_attempt_schedule
    \/ \E p \in Procs : review_load(p, MaxReviews + 2)
    \/ \E p \in Procs : review_commit(p)

SpecRace == Init /\ [][NextRace]_vars

\* two requests that bookmark side by side, and the removal of a bookmark
RaceBookmarks ==
    [userId : {"u1"}, attemptId : {1}, collectionName : Collections, notes : {NoNotes}]

NextBookmarkRace ==
    \/ \E p \in Procs : bookmark_check(p, RaceBookmarks)
    \/ \E p \in Procs : bookmark_commit(p)
    \/ delete_bookmark

SpecBookmarkRace == Init /\ [][NextBookmarkRace]_vars

\* the first request: a problem generated from each response text
FirstRequest == resp = NoResp

NextParse ==
    \/ FirstRequest /\ generate_problem
    \/ FirstRequest /\ generate_company_problem_from(
                           [userId : {"u1"}, difficulty : {<<"Hard">>}, company : {"Acme"}],
                           Texts(MaxLines))

SpecParse == Init /\ [][NextParse]_vars

\* one attempt of one user, reviewed up to MaxGrowth times at one instant:
\* long enough for a streak of correct reviews to pass datetime.max
GrowthScope ==
    /\ now = 0
    /\ Len(attempts) <= 1

NextGrowth ==
    \/ save_attempt_from(Practice({"u1"}, {PlainProblem}, {"correct", "incorrect"}), {0})
           /\ GrowthScope'
    \/ save_attempt_schedule
    \/ complete_review(MaxGrowth)

SpecGrowth == Init /\ [][NextGrowth]_vars

-----------------------------------------------------------------------------
(* Properties of the review scheduler, checked under SpecStreak.  upd is   *)
(* the last scheduler call; attempts[upd.id] is the review state it wrote, *)
(* since nothing else writes the review state of an attempt.               *)

Scheduled == upd.id # 0
Updated == attempts[upd.id]

\* real-number arithmetic on the values of doubles
AbsDiff(x, y) == IF BigLess(x, y) THEN BigSub(y, x) ELSE BigSub(x, y)
HalfUlp(x) == <<Ulp(x) \div 2, 0, 0, 0>>
\* d is within half a unit in the last place of the real number x
NearestDouble(d, x) == BigLeq(AbsDiff(d, x), HalfUlp(x))
\* floor(i * x) of the real product
ExactProductFloor(i, x) == BigMulInt(i, x)[4] \div 4

F_2_0 == <<0, 0, 0, 8>>
F_1_8 == <<52432, 209715, 52428, 7>>

EaseInRange(e) == BigLeq(F_1_3, e) /\ BigLeq(e, F_2_5)

\* C1: in every reachable state, after any sequence of save_attempt,
\* evaluate and complete_review with any outcomes, the ease_factor of every
\* stored attempt lies in [1.3, 2.5].
C1_EaseFactorInRange ==
    \A i \in DOMAIN attempts : EaseInRange(attempts[i].ease_factor)

\* an incorrect answer whose ease_factor - 0.2 falls below 1.3 was clamped to 1.3
C1_Witness ==
    /\ Scheduled
    /\ ~upd.was_correct
    /\ BigLess(F_1_3, upd.ease)
    /\ BigLess(BigSub(upd.ease, F_0_2), F_1_3)
    /\ Updated.ease_factor = F_1_3

\* C2: in every reachable state, after any sequence of save_attempt,
\* evaluate and complete_review, the review_interval_days of every stored
\* attempt is an integer >= 1.
C2_IntervalAtLeastOne ==
    \A i \in DOMAIN attempts :
        attempts[i].review_interval_days \in Nat /\ attempts[i].review_interval_days >= 1

\* a review answered incorrectly after the interval had grown
C2_Witness ==
    /\ Scheduled
    /\ resp.op = "complete_review"
    /\ ~upd.was_correct
    /\ upd.interval >= 2
    /\ Updated.review_interval_days >= 1

\* C3: a scheduler update with was_correct = true sets review_interval_days
\* to floor(interval_days * ease_factor), taken with the ease factor before
\* the update and at least 1, and sets ease_factor to min(2.5, ease_factor +
\* 0.1) (to the nearest double); interval 1 with ease 2.5 becomes interval 2
\* with ease 2.5.
C3_CorrectUpdate ==
    (Scheduled /\ upd.was_correct) =>
        LET sum == BigAdd(upd.ease, F_0_1)
        IN  /\ Updated.review_interval_days = ExactProductFloor(upd.interval, upd.ease)
            /\ Updated.review_interval_days >= 1
            /\ IF BigLeq(F_2_5, sum)
               THEN Updated.ease_factor = F_2_5
               ELSE NearestDouble(Updated.ease_factor, sum)
            /\ (upd.interval = 1 /\ upd.ease = F_2_5 =>
                   Updated.review_interval_days = 2 /\ Updated.ease_factor = F_2_5)

\* a correct answer at interval 2 below the ease ceiling: the interval is
\* truncated (2 * 2.4 = 4.8 gives 4) and the ease factor rises
C3_Witness ==
    /\ Scheduled
    /\ upd.was_correct
    /\ upd.interval = 2
    /\ BigLess(upd.ease, F_2_5)
    /\ Updated.review_interval_days = 4
    /\ BigLess(upd.ease, Updated.ease_factor)

\* C4: a scheduler update with was_correct = false sets review_interval_days
\* to 1 whatever the interval was, and ease_factor to max(1.3, ease_factor -
\* 0.2) (to the nearest double); interval 10 with ease 2.0 becomes interval
\* 1 with ease 1.8, and ease 1.3 stays 1.3.
C4_IncorrectUpdate ==
    /\ (Scheduled /\ ~upd.was_correct) =>
          LET diff == BigSub(upd.ease, F_0_2)
          IN  /\ Updated.review_interval_days = 1
              /\ IF BigLeq(diff, F_1_3)
                 THEN Updated.ease_factor = F_1_3
                 ELSE NearestDouble(Updated.ease_factor, diff)
    /\ LET a == calculate_next_review(
                    [review_interval_days |-> 10, ease_factor |-> F_2_0, next_review_at |-> 0],
                    FALSE, 0)
       IN  a.review_interval_days = 1 /\ a.ease_factor = F_1_8
    /\ LET a == calculate_next_review(
                    [review_interval_days |-> 10, ease_factor |-> F_1_3, next_review_at |-> 0],
                    FALSE, 0)
       IN  a.review_interval_days = 1 /\ a.ease_factor = F_1_3

\* an incorrect answer after a streak of correct ones collapses the interval
C4_Witness ==
    /\ Scheduled
    /\ ~upd.was_correct
    /\ upd.interval >= 5
    /\ Updated.review_interval_days = 1
    /\ BigLess(Updated.ease_factor, upd.ease)

\* C5: a correct review never decreases the interval or the ease factor
\* (new interval >= interval, ease <= new ease <= 2.5), and an incorrect
\* review never increases the ease factor (1.3 <= new ease <= ease).
C5_Monotonic ==
    Scheduled =>
        IF upd.was_correct
        THEN /\ Updated.review_interval_days >= upd.interval
             /\ BigLeq(upd.ease, Updated.ease_factor)
             /\ BigLeq(Updated.ease_factor, F_2_5)
        ELSE /\ BigLeq(F_1_3, Updated.ease_factor)
             /\ BigLeq(Updated.ease_factor, upd.ease)

\* a correct answer that leaves the interval as it was (1 * 1.9 gives 1)
\* and raises the ease factor
C5_Witness ==
    /\ Scheduled
    /\ upd.was_correct
    /\ BigLess(upd.ease, F_2_0)
    /\ Updated.review_interval_days = upd.interval
    /\ BigLess(upd.ease, Updated.ease_factor)

-----------------------------------------------------------------------------
(* Properties of review completion and saving, checked under SpecReview,   *)
(* and of due-review selection, checked under SpecDue.  A response stays   *)
(* in resp until the next request starts, and only requests change the     *)
(* tables.                                                                 *)

\* C6: when complete_review succeeds, the persisted next_review_at of the
\* attempt is the time of the update plus its new review_interval_days in
\* days, and the nextReviewAt and intervalDays of the response are the
\* values persisted on the attempt.
C6_ReviewResponse ==
    (resp.op = "complete_review" /\ resp.status = 200) =>
        LET a == attempts[resp.attemptId]
        IN  /\ upd.id = resp.attemptId
            /\ a.next_review_at = upd.t + a.review_interval_days * DayTicks
            /\ resp.nextReviewAt.instant = a.next_review_at
            /\ resp.intervalDays = a.review_interval_days

\* a review completed after the clock moved, which changed the interval
C6_Witness ==
    /\ resp.op = "complete_review"
    /\ resp.status = 200
    /\ upd.t > 0
    /\ resp.intervalDays # upd.interval
    /\ resp.nextReviewAt.instant = upd.t + resp.intervalDays * DayTicks

\* C7: immediately after save_attempt returns, the first review of the
\* saved attempt is due: its next_review_at is at or before the current
\* time, and due-review selection for its user returns it.
C7_DueAfterSave ==
    (resp.op = "save_attempt" /\ resp.status = 200 /\ upd.t = now) =>
        LET a == attempts[resp.attemptId]
        IN  /\ a.next_review_at <= now
            /\ resp.attemptId \in DueIds(a.user_id, now)

\* C8: in every committed state, also between the two commits of
\* save_attempt and of evaluate, every attempt whose next_review_at is set
\* has next_review_at >= created_at.
C8_NextReviewNotBeforeCreation ==
    \A i \in DOMAIN attempts :
        attempts[i].next_review_at # NULL =>
            attempts[i].next_review_at >= attempts[i].created_at

\* what C9 says of a response of due-review selection
DueSelectionCorrect ==
    LET ids == resp.problems
        due == DueIds(resp.user_id, resp.now)
        returned == {ids[k] : k \in DOMAIN ids}
        key(i) == attempts[i].next_review_at
    IN  /\ \A k \in DOMAIN ids :
              /\ ids[k] \in DOMAIN attempts
              /\ attempts[ids[k]].user_id = resp.user_id
              /\ key(ids[k]) # NULL
              /\ key(ids[k]) <= resp.now
        /\ \A j, k \in DOMAIN ids : j < k => key(ids[j]) <= key(ids[k]) /\ ids[j] # ids[k]
        /\ Len(ids) <= resp.limit
        /\ resp.dueCount = Len(ids)
        /\ Cardinality(due) > resp.limit =>
              /\ Len(ids) = resp.limit
              /\ \A r \in returned, o \in due \ returned : key(r) <= key(o)
        /\ Cardinality(due) <= resp.limit => returned = due

\* C9 (as claimed): for any user and limit, due-review selection returns
\* only attempts of that user whose next_review_at is at or before the
\* current time, in ascending next_review_at order, at most limit of them;
\* the limit most overdue when more than limit are due, and all due ones
\* otherwise.
C9_DueSelectionAnyLimit ==
    resp.op = "get_due_for_review" => DueSelectionCorrect

\* C9 (amended): the same for any user and any limit >= 0.
C9_DueSelection ==
    (resp.op = "get_due_for_review" /\ resp.limit >= 0) => DueSelectionCorrect

\* two attempts of the user are due at different instants and limit 1
\* returns the more overdue one
C9_Witness ==
    /\ resp.op = "get_due_for_review"
    /\ resp.limit = 1
    /\ Cardinality(DueIds(resp.user_id, resp.now)) = 2
    /\ Len(resp.problems) = 1
    /\ \E o \in DueIds(resp.user_id, resp.now) :
          attempts[o].next_review_at > attempts[resp.problems[1]].next_review_at

-----------------------------------------------------------------------------
(* Properties of mock-session scoring, checked under SpecMock *)

CountVerdict(ids, v) == Cardinality({i \in ids : attempts[i].verdict = v})

\* C10: when complete_mock_session runs on a session with at least one
\* linked attempt, the persisted total_score is the arithmetic mean over all
\* linked attempts of 100 for correct, 50 for partially_correct and 0 for
\* any other verdict; [correct, partially_correct, incorrect] scores 50.
C10_MockScore ==
    (/\ resp.op = "complete_mock_session"
     /\ resp.status = 200
     /\ SessionProblems(resp.sessionId) # {}) =>
        LET problems == SessionProblems(resp.sessionId)
            n == Cardinality(problems)
            points == 100 * CountVerdict(problems, "correct")
                      + 50 * CountVerdict(problems, "partially_correct")
            score == sessions[resp.sessionId].total_score
        IN  /\ score.den > 0
            /\ score.num * n = points * score.den
            /\ (/\ n = 3
                /\ CountVerdict(problems, "correct") = 1
                /\ CountVerdict(problems, "partially_correct") = 1
                /\ CountVerdict(problems, "incorrect") = 1) =>
                   score = [num |-> 50, den |-> 1]

\* a completed session of three attempts, one correct, one partially
\* correct and one incorrect, scored 50
C10_Witness ==
    /\ resp.op = "complete_mock_session"
    /\ resp.status = 200
    /\ LET problems == SessionProblems(resp.sessionId)
       IN  /\ Cardinality(problems) = 3
           /\ CountVerdict(problems, "correct") = 1
           /\ CountVerdict(problems, "partially_correct") = 1
           /\ CountVerdict(problems, "incorrect") = 1
    /\ sessions[resp.sessionId].total_score = [num |-> 50, den |-> 1]

\* C11: when complete_mock_session runs on a session with no linked
\* attempts, the total_score of the session is left unset, not set to a
\* number.
C11_EmptySessionScoreUnset ==
    (/\ resp.op = "complete_mock_session"
     /\ resp.status = 200
     /\ SessionProblems(resp.sessionId) = {}) =>
        sessions[resp.sessionId].total_score = NoScore

\* C12: completion is terminal: once completed_at of a session is set, no
\* step unsets it or changes the completed_at, problems_completed or
\* total_score of the session.
C12_CompletionTerminal ==
    [][\A s \in DOMAIN sessions :
          sessions[s].completed_at # NULL =>
              /\ sessions'[s].completed_at = sessions[s].completed_at
              /\ sessions'[s].problems_completed = sessions[s].problems_completed
              /\ sessions'[s].total_score = sessions[s].total_score]_vars

-----------------------------------------------------------------------------
(* Properties of the analytics, checked under SpecWeekly, SpecPattern,     *)
(* SpecDifficulty and SpecAccuracy.  Nothing changes the attempts while an *)
(* analytics response is in resp.                                          *)

\* the windows the weekly series is examined for
Windows == (0..MaxWeeks) \cup {DefaultWeeks}

\* the user's attempts created in the window of N weeks that ends at t
InWindow(user_id, N, t) ==
    {i \in UserAttempts(user_id) : attempts[i].created_at >= t - N * 7 * DayTicks}

\* what C13 says of the series r for the window of N weeks that ends at t
WeeklySeries(r, user_id, N, t) ==
    /\ Len(r) = N + 1
    /\ \A k \in DOMAIN r :
          /\ r[k].week = (t - N * 7 * DayTicks + (k - 1) * 7 * DayTicks) \div DayTicks
          /\ r[k].count >= 0
          /\ r[k].count > 0 =>
                \E i \in InWindow(user_id, N, t) :
                    /\ attempts[i].created_at \div DayTicks >= r[k].week
                    /\ attempts[i].created_at \div DayTicks < r[k].week + 7
    /\ \A j, k \in DOMAIN r : j < k => r[j].week < r[k].week
    /\ r[1].week = (t - N * 7 * DayTicks) \div DayTicks
    /\ r[Len(r)].week = t \div DayTicks

\* C13: for any window of N >= 0 weeks, get_weekly_activity returns exactly
\* N+1 buckets, one per 7-day step from now - N weeks to now inclusive, in
\* ascending date order, and the bucket of a week without attempts is
\* present with count 0.
C13_WeeklyBuckets ==
    /\ \A user_id \in Users, N \in Windows :
          WeeklySeries(get_weekly_activity(user_id, N, now), user_id, N, now)
    /\ resp.op = "get_analytics" =>
          WeeklySeries(resp.weeklyActivity, resp.user_id, DefaultWeeks, resp.now)

\* analytics read on a Monday: the bucket of the current week counts an
\* attempt and the twelve buckets before it are present with count 0
C13_Witness ==
    /\ resp.op = "get_analytics"
    /\ Len(resp.weeklyActivity) = DefaultWeeks + 1
    /\ resp.weeklyActivity[DefaultWeeks + 1].count > 0
    /\ \A k \in 1..DefaultWeeks : resp.weeklyActivity[k].count = 0

RECURSIVE SumCounts(_)
SumCounts(r) == IF r = <<>> THEN 0 ELSE Head(r).count + SumCounts(Tail(r))

\* C14: on any day of the week, every attempt of the user created in the
\* trailing window is counted in the bucket of its week: the bucket counts
\* add up to the number of the user's attempts created in the window.
C14_WeeklyCountsAll ==
    \A user_id \in Users, N \in Windows :
        SumCounts(get_weekly_activity(user_id, N, now))
            = Cardinality(InWindow(user_id, N, now))

\* the tags an attempt carries
TagsOf(i) == {json_loads(attempts[i].patterns)[k] :
                 k \in DOMAIN json_loads(attempts[i].patterns)}

\* C15: in the pattern stats, the total of every tag is the number of the
\* user's attempts bearing that tag (an attempt adds exactly one to every
\* tag it carries), and the correct / incorrect / partial counts are the
\* numbers of those attempts with verdict correct / incorrect /
\* partially_correct.
C15_PatternStats ==
    resp.op = "get_analytics" =>
        LET rows == UserAttempts(resp.user_id)
            bearing(p) == {i \in rows : p \in TagsOf(i)}
            with(p, v) == Cardinality({i \in bearing(p) : attempts[i].verdict = v})
        IN  /\ DOMAIN resp.patternStats = UNION {TagsOf(i) : i \in rows}
            /\ \A p \in DOMAIN resp.patternStats :
                  /\ resp.patternStats[p].total = Cardinality(bearing(p))
                  /\ resp.patternStats[p].correct = with(p, "correct")
                  /\ resp.patternStats[p].incorrect = with(p, "incorrect")
                  /\ resp.patternStats[p].partial = with(p, "partially_correct")

\* C16: the difficulty stats always have exactly the buckets Easy, Medium
\* and Hard; the total of a bucket is the number of the user's attempts with
\* exactly that label and its correct count the number of those with verdict
\* correct, so correct <= total; attempts with another label change no
\* bucket and cause no error.
C16_DifficultyStats ==
    resp.op = "get_analytics" =>
        LET rows == UserAttempts(resp.user_id)
            labelled(d) == {i \in rows : attempts[i].difficulty = d}
        IN  /\ resp.status = 200
            /\ DOMAIN resp.difficultyStats = {"Easy", "Medium", "Hard"}
            /\ \A d \in DOMAIN resp.difficultyStats :
                  /\ resp.difficultyStats[d].total = Cardinality(labelled(d))
                  /\ resp.difficultyStats[d].correct =
                        Cardinality({i \in labelled(d) : attempts[i].verdict = "correct"})
                  /\ resp.difficultyStats[d].correct <= resp.difficultyStats[d].total

\* a user with a correct Easy attempt and an attempt labelled Expert
C16_Witness ==
    /\ resp.op = "get_analytics"
    /\ resp.difficultyStats["Easy"] = [total |-> 1, correct |-> 1]
    /\ \E i \in UserAttempts(resp.user_id) : attempts[i].difficulty = "Expert"
    /\ \A d \in {"Medium", "Hard"} : resp.difficultyStats[d].total = 0

\* C17: get_analytics never fails with a division error: with zero attempts
\* accuracy is 0, and otherwise accuracy is correctAttempts / totalAttempts
\* * 100 rounded to one decimal (at most 0.05 away from the exact
\* percentage) and lies in [0, 100], with correctAttempts <= totalAttempts.
C17_Accuracy ==
    resp.op = "get_analytics" =>
        LET total == resp.totalAttempts
            correct == resp.correctAttempts
            tenths == resp.accuracy.tenths
            error == tenths * total - 1000 * correct
        IN  /\ resp.status = 200
            /\ total = Cardinality(UserAttempts(resp.user_id))
            /\ correct = Cardinality({i \in UserAttempts(resp.user_id) :
                                         attempts[i].verdict = "correct"})
            /\ correct <= total
            /\ total = 0 => tenths = 0
            /\ tenths >= 0 /\ tenths <= 1000
            /\ 2 * error <= total /\ 2 * (0 - error) <= total

\* two of three attempts correct: 66.66... is reported as 66.7
C17_Witness ==
    /\ resp.op = "get_analytics"
    /\ resp.totalAttempts = 3
    /\ resp.correctAttempts = 2
    /\ resp.accuracy.tenths = 667

-----------------------------------------------------------------------------
(* Properties of bookmarks, lookups by identifier and configuration        *)
(* errors, checked under SpecBookmark, SpecLookup and SpecConfig.  Every   *)
(* request puts its response in resp, so a step that changes resp to the   *)
(* response of an operation is a step of that operation.                   *)

SameTriple(b, req) ==
    /\ b.user_id = req.userId
    /\ b.attempt_id = req.attemptId
    /\ b.collection_name = req.collectionName

\* C18: with requests processed one at a time, the store holds at most one
\* bookmark per (user, attempt, collection) triple, and an add_bookmark for
\* a triple that already exists adds nothing, leaves the existing bookmark
\* and its notes unchanged and returns the id of the existing bookmark.
C18_OneBookmarkPerTriple ==
    /\ [](\A b1, b2 \in bookmarks :
             (/\ b1.user_id = b2.user_id
              /\ b1.attempt_id = b2.attempt_id
              /\ b1.collection_name = b2.collection_name) => b1 = b2)
    /\ [][(/\ resp'.op = "add_bookmark"
           /\ \E b \in bookmarks : SameTriple(b, resp'.req)) =>
              /\ bookmarks' = bookmarks
              /\ \E b \in bookmarks : SameTriple(b, resp'.req) /\ resp'.bookmarkId = b.id]_vars

\* a bookmark added again with other notes: the existing id is returned and
\* the notes of the bookmark are the ones it was created with
C18_Witness ==
    /\ resp.op = "add_bookmark"
    /\ resp.message = "Already bookmarked"
    /\ \E b \in bookmarks :
          /\ SameTriple(b, resp.req)
          /\ b.id = resp.bookmarkId
          /\ b.notes # resp.req.notes

\* the operations that look a record up by identifier, the identifier of a
\* response of one of them, and the identifiers in use in its table
Lookups == {"get_attempt", "complete_review", "get_mock_session",
            "complete_mock_session", "delete_bookmark"}
LookupId(r) ==
    IF r.op \in {"get_attempt", "get_mock_session", "delete_bookmark"} THEN r.id
    ELSE IF r.status = 404 THEN r.id
    ELSE IF r.op = "complete_review" THEN r.attemptId
    ELSE r.sessionId
IdsInUse(op) ==
    IF op \in {"get_attempt", "complete_review"} THEN DOMAIN attempts
    ELSE IF op \in {"get_mock_session", "complete_mock_session"} THEN DOMAIN sessions
    ELSE {b.id : b \in bookmarks}

\* C19: get_attempt, complete_review, get_mock_session,
\* complete_mock_session and delete_bookmark answer with a not-found outcome
\* when no record has the identifier, and then leave the store unchanged.
C19_NotFound ==
    [][(/\ resp'.op \in Lookups
        /\ LookupId(resp') \notin IdsInUse(resp'.op)) =>
           /\ resp'.status = 404
           /\ UNCHANGED <<attempts, sessions, bookmarks>>]_vars

\* C20: a request without a user id (empty or blank) or without an OpenAI
\* key is rejected with a client error before anything is persisted: the
\* response of such a request has a 4xx status and no attempt of a blank
\* user is stored.
C20_ConfigRejected ==
    /\ (/\ resp.op = "evaluate"
        /\ "has_key" \in DOMAIN resp
        /\ resp.userId = Blank \/ ~resp.has_key) =>
           (resp.status >= 400 /\ resp.status <= 499)
    /\ \A i \in DOMAIN attempts : attempts[i].user_id # Blank

-----------------------------------------------------------------------------
(* Properties of the database sessions, checked under SpecSession *)

\* the requests in flight
InFlight == (IF pc = Idle THEN 0 ELSE 1) + Cardinality({p \in Procs : inflight[p] # Idle})

\* C21: every handler that opens a database session closes it on every exit
\* path (normal return, not found, provider failure, commit failure): each
\* request in flight holds at most one session, and whenever no request is
\* in flight the number of open sessions is zero.
C21_SessionsClosed ==
    /\ open_sessions <= InFlight
    /\ InFlight = 0 => open_sessions = 0

\* a study plan request whose chat completion failed after the session was
\* opened, and a save whose second commit failed
C21_Witness ==
    /\ InFlight = 0
    /\ open_sessions = 0
    /\ resp.op = "generate_study_plan"
    /\ "exit" \in DOMAIN resp
    /\ resp.exit = "provider_failure"
    /\ Len(attempts) > 0

-----------------------------------------------------------------------------
(* Who writes the attempts table, checked under SpecFrame *)

\* the operations that are neither save_attempt, evaluate nor complete_review
OtherOps ==
    {"get_due_for_review", "get_history", "get_attempt", "get_analytics",
     "export_markdown", "export_resume_bullets", "add_bookmark", "get_bookmarks",
     "delete_bookmark", "start_mock_session", "get_mock_session",
     "complete_mock_session", "get_mock_history", "generate_study_plan",
     "get_study_plans"}

\* b is a with, at most, another review state
SameButReview(a, b) ==
    b = [a EXCEPT !.review_interval_days = b.review_interval_days,
                  !.ease_factor = b.ease_factor,
                  !.next_review_at = b.next_review_at]

\* C22: no step removes an attempt; a step that adds one adds exactly one, is
\* the insert of save_attempt or of evaluate and leaves the others alone; a
\* step that changes an attempt is the scheduler update of save_attempt,
\* evaluate or complete_review on that attempt and changes nothing but its
\* review_interval_days, ease_factor and next_review_at; every other
\* operation leaves the table as it was
C22_AttemptsFrame ==
    [][ /\ Len(attempts') >= Len(attempts)
        /\ Len(attempts') > Len(attempts) =>
              /\ Len(attempts') = Len(attempts) + 1
              /\ pc'.op \in {"save_attempt", "evaluate"}
              /\ pc'.id = Len(attempts')
              /\ \A i \in DOMAIN attempts : attempts'[i] = attempts[i]
        /\ \A i \in DOMAIN attempts :
              attempts'[i] # attempts[i] =>
                 /\ SameButReview(attempts[i], attempts'[i])
                 /\ resp'.op \in {"save_attempt", "evaluate", "complete_review"}
                 /\ resp'.status = 200
                 /\ upd'.id = i
                 /\ attempts'[i] = calculate_next_review(attempts[i], upd'.was_correct, upd'.t)
        /\ resp'.op \in OtherOps => attempts' = attempts
      ]_vars

\* a review has changed the review state of a saved attempt that is linked to
\* a mock session and bookmarked, with a study plan stored
C22_Witness ==
    /\ resp.op = "complete_review" /\ resp.status = 200
    /\ attempts[resp.attemptId].ease_factor # F_2_5
    /\ attempts[resp.attemptId].mock_session_id = 1
    /\ bookmarks # {}
    /\ Len(sessions) > 0
    /\ Len(plans) > 0

-----------------------------------------------------------------------------
(* Ownership of the records, checked under SpecOwner *)

\* every record a per-user query returned belongs to the user it was asked for
QueriesScoped ==
    /\ resp.op = "get_history" =>
          \A k \in DOMAIN resp.attempts : attempts[resp.attempts[k]].user_id = resp.user_id
    /\ resp.op = "get_bookmarks" =>
          \A k \in DOMAIN resp.bookmarks : resp.bookmarks[k].user_id = resp.user_id
    /\ resp.op = "get_mock_history" =>
          \A k \in DOMAIN resp.sessions : sessions[resp.sessions[k]].user_id = resp.user_id

\* C23: each bookmark refers to an attempt that exists and belongs to the
\* bookmark's user, each attempt linked to a mock session belongs to the user
\* of a session that exists, and each per-user query returns only records of
\* the user it was asked for
C23_NoSharing ==
    /\ \A b \in bookmarks :
          /\ b.attempt_id \in DOMAIN attempts
          /\ attempts[b.attempt_id].user_id = b.user_id
    /\ \A i \in DOMAIN attempts :
          attempts[i].mock_session_id # NULL =>
             /\ attempts[i].mock_session_id \in DOMAIN sessions
             /\ sessions[attempts[i].mock_session_id].user_id = attempts[i].user_id
    /\ QueriesScoped

-----------------------------------------------------------------------------
(* The verdicts stored, checked under SpecMock *)

\* C24: the verdict of every stored attempt is correct, partially_correct or
\* incorrect
C24_VerdictEnum ==
    \A i \in DOMAIN attempts :
        attempts[i].verdict \in {"correct", "partially_correct", "incorrect"}

-----------------------------------------------------------------------------
(* Failures of the provider and of the memory service, checked under       *)
(* SpecProvider                                                            *)

\* no call is listed twice
NoRepeat(calls) == \A i, j \in DOMAIN calls : calls[i] = calls[j] => i = j

\* the calls of a handler whose failure the code catches
CaughtCalls(op) ==
    {ProviderCalls(op)[k].name : k \in {k \in DOMAIN ProviderCalls(op) : ProviderCalls(op)[k].caught}}

\* C25 as stated: a request in which a call to the provider or to the memory
\* service raised fails, no call is made twice in a request, and an evaluate
\* that fails on such a call stores no attempt
C25_FailureFails ==
    [][ "calls" \in DOMAIN resp' =>
           /\ resp'.failed # {} => resp'.status = 500
           /\ NoRepeat(resp'.calls)
           /\ (resp'.op = "evaluate" /\ resp'.failed # {} /\ resp'.status = 500) =>
                 attempts' = attempts
      ]_vars

\* C25, amended: a request in which a call raised whose failure the handler
\* does not catch fails, no call is made twice in a request, and an evaluate
\* that fails on its evaluation or memory-logging call stores no attempt
C25_UncaughtFailureFails ==
    [][ "calls" \in DOMAIN resp' =>
           /\ resp'.failed \ CaughtCalls(resp'.op) # {} => resp'.status = 500
           /\ NoRepeat(resp'.calls)
           /\ (resp'.op = "evaluate" /\ resp'.status = 500
               /\ resp'.failed \cap {"evaluate_solution", "log_problem_attempt"} # {}) =>
                 attempts' = attempts
      ]_vars

\* an evaluate failed on its memory-logging call after an earlier one had
\* stored an attempt
C25_Witness ==
    /\ resp.op = "evaluate" /\ resp.status = 500
    /\ "calls" \in DOMAIN resp
    /\ resp.calls = <<"evaluate_solution", "log_problem_attempt">>
    /\ resp.failed = {"log_problem_attempt"}
    /\ Len(attempts) > 0

-----------------------------------------------------------------------------
(* Reviews side by side, checked under SpecRace *)

\* the review state of an attempt is within its ranges
ReviewInRange(a) ==
    /\ ~BigLess(a.ease_factor, F_1_3) /\ ~BigLess(F_2_5, a.ease_factor)
    /\ a.review_interval_days >= 1

\* C26: when a request commits its review of an attempt that another request
\* has changed since it was read, the attempt's review state becomes the
\* scheduler update of the state the committing request read, and is within
\* its ranges
C26_LastWriteWins ==
    [][ \A p \in Procs :
           (/\ inflight[p] # Idle
            /\ inflight[p].op = "complete_review"
            /\ inflight'[p] = Idle
            /\ attempts[inflight[p].id] # inflight[p].loaded) =>
               /\ attempts'[inflight[p].id] =
                     calculate_next_review(inflight[p].loaded, inflight[p].was_correct,
                                           inflight[p].t)
               /\ ReviewInRange(attempts'[inflight[p].id])
      ]_vars

\* the review state of every attempt stays within its ranges
RaceInRange == \A i \in DOMAIN attempts : ReviewInRange(attempts[i])

-----------------------------------------------------------------------------
(* Bookmarks side by side, checked under SpecBookmarkRace *)

\* C27: also when two add_bookmark requests run side by side, each making its
\* query before the other commits, no two bookmarks have the same user,
\* attempt and collection
C27_UniqueUnderRace ==
    \A b1, b2 \in bookmarks :
        (/\ b1.user_id = b2.user_id
         /\ b1.attempt_id = b2.attempt_id
         /\ b1.collection_name = b2.collection_name) => b1.id = b2.id

-----------------------------------------------------------------------------
(* Properties of the extraction of a problem from a response text, checked *)
(* under SpecParse.  They are stated on the text itself: its lines, the    *)
(* first token of a line that is not a space, and what follows it.         *)

\* the responses that carry an extracted problem
Extracted ==
    /\ resp.op \in {"generate_problem", "generate_company_problem"}
    /\ resp.status = 200

\* the lines of the response text, without a last line that is empty
TextLines ==
    LET breaks == {k \in DOMAIN resp.text : resp.text[k] = NL}
        starts == {1} \cup {k + 1 : k \in breaks}
        end(a) == IF \E k \in breaks : k >= a
                  THEN (CHOOSE k \in breaks : k >= a /\ \A j \in breaks : j >= a => k <= j) - 1
                  ELSE Len(resp.text)
        first == {a \in starts : a <= Len(resp.text)}
        nth(ss, n) == CHOOSE a \in ss : Cardinality({b \in ss : b < a}) = n - 1
    IN  [n \in 1..Cardinality(first) |-> SubSeq(resp.text, nth(first, n), end(nth(first, n)))]

IsBlank(s) == \A k \in DOMAIN s : s[k] \in Whitespace

\* the position of prefix in line when only spaces come before it, else 0
PrefixAt(line, prefix) ==
    IF \E k \in DOMAIN line : line[k] = prefix /\ \A j \in 1..(k - 1) : line[j] = SP
    THEN CHOOSE k \in DOMAIN line : line[k] = prefix /\ \A j \in 1..(k - 1) : line[j] = SP
    ELSE 0

HasPrefix(line) == \E prefix \in Prefixes : PrefixAt(line, prefix) > 0

\* what follows the prefix on a line that begins with it
ValueAfter(line, prefix) == SubSeq(line, PrefixAt(line, prefix) + 1, Len(line))

\* a line that begins with prefix and has a value after it
NonEmptyLine(lines, prefix) ==
    \E n \in DOMAIN lines :
        /\ PrefixAt(lines[n], prefix) > 0
        /\ ~IsBlank(ValueAfter(lines[n], prefix))

\* a Patterns line with a tag that is not empty
TagLine(lines) ==
    \E n \in DOMAIN lines :
        /\ PrefixAt(lines[n], "Patterns:") > 0
        /\ \E k \in DOMAIN ValueAfter(lines[n], "Patterns:") :
              ValueAfter(lines[n], "Patterns:")[k] \notin Whitespace \cup {","}

\* the first line that begins with Problem:, or 0
FirstProblemLine(lines) ==
    IF \E n \in DOMAIN lines : PrefixAt(lines[n], "Problem:") > 0
    THEN CHOOSE n \in DOMAIN lines :
            /\ PrefixAt(lines[n], "Problem:") > 0
            /\ \A m \in 1..(n - 1) : PrefixAt(lines[m], "Problem:") = 0
    ELSE 0

\* a line of the Problem block that is not blank: a line after the first
\* Problem: line that begins with none of the prefixes
BlockLine(lines) ==
    LET first == FirstProblemLine(lines)
    IN  /\ first > 0
        /\ \E n \in DOMAIN lines :
              /\ n > first
              /\ ~HasPrefix(lines[n])
              /\ ~IsBlank(lines[n])

\* C28: for every response text a problem is extracted; its title is
\* 'Practice Problem' when no Title line has a value, its difficulty the
\* requested one when no Difficulty line has a value, its patterns the
\* requested ones when no Patterns line has a tag that is not empty, and its
\* statement the whole text when the Problem block has no line that is not
\* blank
C28_ExtractionFallbacks ==
    Extracted =>
        LET lines == TextLines
        IN  /\ DOMAIN resp.problem = {"title", "difficulty", "patterns", "statement"}
            /\ ~NonEmptyLine(lines, "Title:") => resp.problem.title = DefaultTitle
            /\ ~NonEmptyLine(lines, "Difficulty:") =>
                  resp.problem.difficulty = resp.difficulty
            /\ ~TagLine(lines) => resp.problem.patterns = resp.patterns
            /\ ~BlockLine(lines) => resp.problem.statement = resp.text

\* a text with a Title line, a Patterns line and a Problem line, none of
\* which has a value: every field is the fallback
C28_Witness ==
    /\ Extracted
    /\ LET lines == TextLines
       IN  /\ \E n \in DOMAIN lines : PrefixAt(lines[n], "Title:") > 0
           /\ \E n \in DOMAIN lines : PrefixAt(lines[n], "Patterns:") > 0
           /\ FirstProblemLine(lines) > 0
           /\ ~NonEmptyLine(lines, "Title:") /\ ~NonEmptyLine(lines, "Difficulty:")
           /\ ~TagLine(lines) /\ ~BlockLine(lines)
    /\ resp.patterns # <<>>
    /\ resp.problem = [title |-> DefaultTitle, difficulty |-> resp.difficulty,
                       patterns |-> resp.patterns, statement |-> resp.text]

\* C29: the lines after the first Problem: line are the statement, in their
\* order, and the title, the difficulty and the patterns are those extracted
\* from the text up to that line
C29_UnboundedBlock ==
    Extracted =>
        LET lines == TextLines
            first == FirstProblemLine(lines)
            head == SubSeq(lines, 1, first)
            block == SubSeq(lines, first + 1, Len(lines))
            before == parse_problem(join(NL, head), resp.difficulty, resp.patterns)
        IN  first > 0 =>
               /\ resp.problem.statement = or_else(strip(join(NL, block)), resp.text)
               /\ resp.problem.title = before.title
               /\ resp.problem.difficulty = before.difficulty
               /\ resp.problem.patterns = before.patterns

-----------------------------------------------------------------------------
(* Growth of the interval under correct reviews, checked under SpecGrowth *)

\* the review state after n correct reviews in a row at instant t
RECURSIVE correct_streak(_, _, _)
correct_streak(attempt, n, t) ==
    IF n = 0 THEN attempt
    ELSE correct_streak(calculate_next_review(attempt, TRUE, t), n - 1, t)

\* an attempt at interval 1 and ease 1.3 has a longer interval after seven
\* correct reviews in a row
SevenReviewsGrow ==
    \A i \in DOMAIN attempts :
        (attempts[i].review_interval_days = 1 /\ attempts[i].ease_factor = F_1_3) =>
            correct_streak(attempts[i], 7, now).review_interval_days > 1

\* a correct review of an attempt whose ease factor is at least 2.0 makes its
\* interval strictly longer
GrowsOnCorrect ==
    \A i \in DOMAIN attempts :
        (/\ resp'.op = "complete_review"
         /\ ~BigLess(attempts[i].ease_factor, F_2_0)
         /\ \/ resp'.status = 200 /\ resp'.attemptId = i /\ upd'.was_correct
            \/ resp'.status = 500 /\ resp'.id = i /\ resp'.was_correct) =>
            attempts'[i].review_interval_days > attempts[i].review_interval_days

\* C30: correct reviews in a row make the interval grow without bound: from
\* interval 1 and ease 1.3 the interval is longer after at most seven of
\* them, and every correct review of an attempt whose ease factor has
\* reached 2.0 makes the interval strictly longer
C30_IntervalGrowth == []SevenReviewsGrow /\ [][GrowsOnCorrect]_vars

\* the second part of C30 on its own, and the first with eight reviews
GrowsOnEveryCorrect == [][GrowsOnCorrect]_vars
EightReviewsGrow ==
    \A i \in DOMAIN attempts :
        (attempts[i].review_interval_days = 1 /\ attempts[i].ease_factor = F_1_3) =>
            /\ correct_streak(attempts[i], 7, now).review_interval_days = 1
            /\ correct_streak(attempts[i], 8, now).review_interval_days = 2

\* the model's floats are exact: an interval of 2^13 days or more is only
\* multiplied by an ease factor of 2.5
GrowthExact ==
    \A i \in DOMAIN attempts :
        attempts[i].review_interval_days >= 2^13 => attempts[i].ease_factor = F_2_5

====
